---------------------------- MODULE Spec2Model ----------------------------
(***************************************************************************)
(* A model of bgpsim: the per-router BGP state machine (src/src/router.rs), *)
(* the external router stub (src/src/external_router.rs) and the network   *)
(* driver with its event queue (src/src/network.rs).                       *)
(*                                                                         *)
(* Conventions.                                                            *)
(*  - RouterId, Prefix, AsId and u32 attributes are naturals.  LinkWeight  *)
(*    (f32) is restricted to naturals: sums of small naturals are exact in *)
(*    f32, so the comparisons agree.  The infinite weight is Infinity.     *)
(*  - Option<T> is a sequence of length 0 (None) or 1 (Some(x)).           *)
(*  - HashMap<K,V> is a function whose DOMAIN is the set of keys.          *)
(*  - Result<T,E> is a record [ok, val, err].                              *)
(*  - The iteration order of a HashMap / HashSet is not specified by the   *)
(*    code (std RandomState): every operator that iterates one takes the   *)
(*    order as a parameter, and the actions choose it with \E.             *)
(***************************************************************************)
EXTENDS Integers, Sequences, FiniteSets, TLC

---------------------------------------------------------------------------
(* Option, HashMap, Result                                                 *)

None == << >>
Some(x) == << x >>
IsSome(o) == Len(o) = 1
IsNone(o) == Len(o) = 0
Unwrap(o) == o[1]
UnwrapOr(o, d) == IF IsSome(o) THEN o[1] ELSE d

EmptyMap == [x \in {} |-> x]
Has(m, k) == k \in DOMAIN m
Get(m, k) == IF k \in DOMAIN m THEN Some(m[k]) ELSE None
Put(m, k, v) == [x \in (DOMAIN m) \cup {k} |-> IF x = k THEN v ELSE m[x]]
Del(m, k) == [x \in (DOMAIN m) \ {k} |-> m[x]]

Ok(v) == [ok |-> TRUE, val |-> v, err |-> << >>]
Err(kind, id) == [ok |-> FALSE, val |-> << >>, err |-> << kind, id >>]

RECURSIVE Perms(_)
(* All iteration orders of a hash set S. *)
Perms(S) ==
    IF S = {} THEN { << >> }
    ELSE UNION { { << x >> \o p : p \in Perms(S \ {x}) } : x \in S }

RECURSIVE SetToSeq(_)
(* The elements of a set of naturals in ascending order. *)
SetToSeq(S) ==
    IF S = {} THEN << >>
    ELSE LET m == CHOOSE x \in S : \A y \in S : x <= y
         IN << m >> \o SetToSeq(S \ {m})

---------------------------------------------------------------------------
(* bgp.rs                                                                  *)

DefaultLocalPref == 100
DefaultMed == 0

BgpRoute(prefix, as_path, next_hop, local_pref, med) ==
    [prefix |-> prefix, as_path |-> as_path, next_hop |-> next_hop,
     local_pref |-> local_pref, med |-> med]

clone_default(rt) ==
    [rt EXCEPT !.local_pref = Some(UnwrapOr(rt.local_pref, DefaultLocalPref)),
               !.med = Some(UnwrapOr(rt.med, DefaultMed))]

(* impl PartialEq for BgpRoute *)
RouteEq(a, b) ==
    LET s == clone_default(a)
        o == clone_default(b)
    IN  /\ s.prefix = o.prefix
        /\ s.as_path = b.as_path
        /\ s.next_hop = o.next_hop
        /\ s.local_pref = o.local_pref
        /\ s.med = o.med

is_ebgp(t) == t = "EBgp"
is_ibgp(t) == ~ is_ebgp(t)

Update(route) == [type |-> "Update", prefix |-> route.prefix, route |-> Some(route)]
Withdraw(prefix) == [type |-> "Withdraw", prefix |-> prefix, route |-> None]

(* event.rs: Event::Bgp(from, to, bgp_event) *)
EventBgp(from, to, bgp_event) == [from |-> from, to |-> to, msg |-> bgp_event]

---------------------------------------------------------------------------
(* router.rs: RIBEntry                                                     *)

RIBEntry(route, from_type, from_id, igp_cost) ==
    [route |-> route, from_type |-> from_type, from_id |-> from_id,
     igp_cost |-> igp_cost]

(* impl PartialEq for RIBEntry: the route and the neighbour, nothing else *)
RibEq(a, b) == RouteEq(a.route, b.route) /\ a.from_id = b.from_id

(* equality of Option<RIBEntry> *)
OptRibEq(a, b) ==
    IF IsSome(a) /\ IsSome(b) THEN RibEq(a[1], b[1]) ELSE IsSome(a) = IsSome(b)

(* a comparison without the last criterion: candidates that differ in the  *)
(* neighbour only are equal, and the one the iteration meets first is kept *)
cmp_without_from_id(self, other) ==
    LET s == clone_default(self.route)
        o == clone_default(other.route)
    IN  IF s.local_pref[1] > o.local_pref[1] THEN "Greater"
        ELSE IF s.local_pref[1] < o.local_pref[1] THEN "Less"
        ELSE IF Len(s.as_path) < Len(o.as_path) THEN "Greater"
        ELSE IF Len(s.as_path) > Len(o.as_path) THEN "Less"
        ELSE IF s.med[1] < o.med[1] THEN "Greater"
        ELSE IF s.med[1] > o.med[1] THEN "Less"
        ELSE IF is_ebgp(self.from_type) /\ is_ibgp(other.from_type) THEN "Greater"
        ELSE IF Unwrap(self.igp_cost) < Unwrap(other.igp_cost) THEN "Greater"
        ELSE IF Unwrap(self.igp_cost) > Unwrap(other.igp_cost) THEN "Less"
        ELSE IF s.next_hop < o.next_hop THEN "Greater"
        ELSE IF s.next_hop > o.next_hop THEN "Less"
        ELSE "Equal"

(* a comparison that leaves out the IGP cost to the next hop *)
cmp_without_igp_cost(self, other) ==
    LET s == clone_default(self.route)
        o == clone_default(other.route)
    IN  IF s.local_pref[1] > o.local_pref[1] THEN "Greater"
        ELSE IF s.local_pref[1] < o.local_pref[1] THEN "Less"
        ELSE IF Len(s.as_path) < Len(o.as_path) THEN "Greater"
        ELSE IF Len(s.as_path) > Len(o.as_path) THEN "Less"
        ELSE IF s.med[1] < o.med[1] THEN "Greater"
        ELSE IF s.med[1] > o.med[1] THEN "Less"
        ELSE IF is_ebgp(self.from_type) /\ is_ibgp(other.from_type) THEN "Greater"
        ELSE IF s.next_hop < o.next_hop THEN "Greater"
        ELSE IF s.next_hop > o.next_hop THEN "Less"
        ELSE IF self.from_id < other.from_id THEN "Greater"
        ELSE IF self.from_id > other.from_id THEN "Less"
        ELSE "Equal"

(* impl PartialOrd for RIBEntry, line by line.  The test of line 544 reads *)
(* self.from_type twice, so it is never true.                              *)
partial_cmp(self, other) ==
    LET s == clone_default(self.route)
        o == clone_default(other.route)
    IN  IF s.local_pref[1] > o.local_pref[1] THEN "Greater"
        ELSE IF s.local_pref[1] < o.local_pref[1] THEN "Less"
        ELSE IF Len(s.as_path) < Len(o.as_path) THEN "Greater"
        ELSE IF Len(s.as_path) > Len(o.as_path) THEN "Less"
        ELSE IF s.med[1] < o.med[1] THEN "Greater"
        ELSE IF s.med[1] > o.med[1] THEN "Less"
        ELSE IF is_ebgp(self.from_type) /\ is_ibgp(other.from_type) THEN "Greater"
        ELSE IF is_ibgp(self.from_type) /\ is_ebgp(self.from_type) THEN "Less"
        ELSE IF Unwrap(self.igp_cost) < Unwrap(other.igp_cost) THEN "Greater"
        ELSE IF Unwrap(self.igp_cost) > Unwrap(other.igp_cost) THEN "Less"
        ELSE IF s.next_hop < o.next_hop THEN "Greater"
        ELSE IF s.next_hop > o.next_hop THEN "Less"
        ELSE IF self.from_id < other.from_id THEN "Greater"
        ELSE IF self.from_id > other.from_id THEN "Less"
        ELSE "Equal"

---------------------------------------------------------------------------
(* router.rs: Router                                                       *)

(* Router::new *)
NewRouter(router_id) ==
    [router_id |-> router_id,
     igp_forwarding_table |-> EmptyMap,
     ibgp_peer_sessions |-> {},
     ibgp_client_sessions |-> {},
     ebgp_sessions |-> {},
     bgp_rib_in |-> EmptyMap,
     bgp_rib |-> EmptyMap,
     bgp_rib_out |-> EmptyMap,
     bgp_known_prefixes |-> {},
     policy_bgp_local_pref |-> EmptyMap,
     policy_bgp_route_no_export |-> {}]

(* the peers dissemination iterates: the union of the three session sets *)
bgp_peers(r) ==
    (r.ibgp_client_sessions \cup r.ibgp_peer_sessions) \cup r.ebgp_sessions

get_bgp_session_type(r, peer) ==
    IF peer \in r.ibgp_peer_sessions THEN Ok("IBgpPeer")
    ELSE IF peer \in r.ibgp_client_sessions THEN Ok("IBgpClient")
    ELSE IF peer \in r.ebgp_sessions THEN Ok("EBgp")
    ELSE Err("NoBgpSession", peer)

(* an establish that looks for the peer in the set of the new type only *)
establish_unless_same_type(r, target, session_type) ==
    IF \/ session_type = "EBgp" /\ target \in r.ebgp_sessions
       \/ session_type = "IBgpPeer" /\ target \in r.ibgp_peer_sessions
       \/ session_type = "IBgpClient" /\ target \in r.ibgp_client_sessions
    THEN [router |-> r, res |-> Err("SessionAlreadyExists", target)]
    ELSE [router |->
            CASE session_type = "EBgp" ->
                   [r EXCEPT !.ebgp_sessions = @ \cup {target}]
              [] session_type = "IBgpPeer" ->
                   [r EXCEPT !.ibgp_peer_sessions = @ \cup {target}]
              [] session_type = "IBgpClient" ->
                   [r EXCEPT !.ibgp_client_sessions = @ \cup {target}],
          res |-> Ok(<< >>)]

(* Result<(), DeviceError> with the router as it is left *)
establish_bgp_session(r, target, session_type) ==
    IF \/ target \in r.ebgp_sessions
       \/ target \in r.ibgp_peer_sessions
       \/ target \in r.ibgp_client_sessions
    THEN [router |-> r, res |-> Err("SessionAlreadyExists", target)]
    ELSE [router |->
            CASE session_type = "EBgp" ->
                   [r EXCEPT !.ebgp_sessions = @ \cup {target}]
              [] session_type = "IBgpPeer" ->
                   [r EXCEPT !.ibgp_peer_sessions = @ \cup {target}]
              [] session_type = "IBgpClient" ->
                   [r EXCEPT !.ibgp_client_sessions = @ \cup {target}],
          res |-> Ok(<< >>)]

(* rib.get_mut(&prefix).and_then(|rib| rib.remove(&target)) *)
RemoveIn(table, prefix, target) ==
    IF Has(table, prefix)
    THEN [table EXCEPT ![prefix] = Del(@, target)]
    ELSE table

(* a close that leaves rib_out as it is *)
close_keeping_rib_out(r, target) ==
    IF target \notin bgp_peers(r)
    THEN [router |-> r, res |-> Err("NoBgpSession", target)]
    ELSE [router |->
            [r EXCEPT !.ebgp_sessions = @ \ {target},
                      !.ibgp_peer_sessions = @ \ {target},
                      !.ibgp_client_sessions = @ \ {target},
                      !.bgp_rib_in = [p \in DOMAIN @ |-> Del(@[p], target)]],
          res |-> Ok(<< >>)]

(* close_bgp_session without the removal from bgp_rib_in *)
close_keeping_rib_in(r, target) ==
    IF target \notin bgp_peers(r)
    THEN [router |-> r, res |-> Err("NoBgpSession", target)]
    ELSE [router |->
            [r EXCEPT !.ebgp_sessions = @ \ {target},
                      !.ibgp_peer_sessions = @ \ {target},
                      !.ibgp_client_sessions = @ \ {target},
                      !.bgp_rib_out = [p \in DOMAIN @ |-> Del(@[p], target)]],
          res |-> Ok(<< >>)]

close_bgp_session(r, target) ==
    IF target \notin bgp_peers(r)
    THEN [router |-> r, res |-> Err("NoBgpSession", target)]
    ELSE LET r1 == [r EXCEPT !.ebgp_sessions = @ \ {target},
                             !.ibgp_peer_sessions = @ \ {target},
                             !.ibgp_client_sessions = @ \ {target}]
         IN  [router |->
                [r1 EXCEPT
                   !.bgp_rib_in =
                      [p \in DOMAIN r1.bgp_rib_in |->
                         IF p \in r1.bgp_known_prefixes
                         THEN Del(r1.bgp_rib_in[p], target)
                         ELSE r1.bgp_rib_in[p]],
                   !.bgp_rib_out =
                      [p \in DOMAIN r1.bgp_rib_out |->
                         IF p \in r1.bgp_known_prefixes
                         THEN Del(r1.bgp_rib_out[p], target)
                         ELSE r1.bgp_rib_out[p]]],
              res |-> Ok(<< >>)]

(* an insertion that keeps the entry a neighbour already has *)
insert_keeping_first(r, route, from) ==
    LET from_type == get_bgp_session_type(r, from)
    IN  IF ~ from_type.ok
        THEN [router |-> r, res |-> from_type]
        ELSE LET new_entry == RIBEntry(route, from_type.val, from, None)
                 rib_in == IF Has(r.bgp_rib_in, route.prefix)
                           THEN r.bgp_rib_in[route.prefix]
                           ELSE EmptyMap
             IN  [router |->
                    [r EXCEPT !.bgp_rib_in =
                        Put(@, route.prefix,
                            IF Has(rib_in, from) THEN rib_in
                            ELSE Put(rib_in, from, new_entry))],
                  res |-> Ok(route.prefix)]

insert_bgp_route(r, route, from) ==
    LET from_type == get_bgp_session_type(r, from)
    IN  IF ~ from_type.ok
        THEN [router |-> r, res |-> from_type]
        ELSE LET new_entry == RIBEntry(route, from_type.val, from, None)
                 rib_in == IF Has(r.bgp_rib_in, route.prefix)
                           THEN r.bgp_rib_in[route.prefix]
                           ELSE EmptyMap
             IN  [router |->
                    [r EXCEPT !.bgp_rib_in =
                        Put(@, route.prefix, Put(rib_in, from, new_entry))],
                  res |-> Ok(route.prefix)]

(* a withdrawal that leaves an empty table for a prefix rib_in lacked *)
remove_creating_table(r, prefix, from) ==
    [r EXCEPT !.bgp_rib_in =
        IF Has(@, prefix) THEN RemoveIn(@, prefix, from)
        ELSE Put(@, prefix, EmptyMap)]

(* a withdrawal that leaves rib_in as it is *)
keep_bgp_route(r, prefix, from) == r

remove_bgp_route(r, prefix, from) ==
    [r EXCEPT !.bgp_rib_in = RemoveIn(@, prefix, from)]

(* a processing that reports an unreachable next hop as an unknown one *)
process_unreachable_as_not_found(r, entry) ==
    LET local_pref ==
            IF is_ebgp(entry.from_type)
            THEN Some(UnwrapOr(Get(r.policy_bgp_local_pref, entry.from_id),
                               DefaultLocalPref))
            ELSE entry.route.local_pref
        hop == entry.route.next_hop
        new_route ==
            [clone_default(entry.route) EXCEPT
                !.local_pref = local_pref,
                !.next_hop = IF is_ebgp(entry.from_type)
                             THEN entry.from_id ELSE @]
    IN  IF is_ibgp(entry.from_type)
           /\ (~ Has(r.igp_forwarding_table, hop)
                  \/ IsNone(r.igp_forwarding_table[hop]))
        THEN Err("RouterNotFound", hop)
        ELSE Ok(RIBEntry(new_route, entry.from_type, entry.from_id,
                         Some(IF is_ibgp(entry.from_type)
                              THEN r.igp_forwarding_table[hop][1][2]
                              ELSE 0)))

(* a processing that keeps the next hop the Update carried *)
process_keeping_next_hop(r, entry) ==
    LET local_pref ==
            IF is_ebgp(entry.from_type)
            THEN Some(UnwrapOr(Get(r.policy_bgp_local_pref, entry.from_id),
                               DefaultLocalPref))
            ELSE entry.route.local_pref
        hop == entry.route.next_hop
        new_route == [clone_default(entry.route) EXCEPT !.local_pref = local_pref]
    IN  IF is_ibgp(entry.from_type) /\ ~ Has(r.igp_forwarding_table, hop)
        THEN Err("RouterNotFound", hop)
        ELSE IF is_ibgp(entry.from_type) /\ IsNone(r.igp_forwarding_table[hop])
        THEN Err("RouterNotReachable", hop)
        ELSE Ok(RIBEntry(new_route, entry.from_type, entry.from_id,
                         Some(IF is_ibgp(entry.from_type)
                              THEN r.igp_forwarding_table[hop][1][2]
                              ELSE 0)))

process_bgp_rib_in_route(r, entry) ==
    LET local_pref ==
            IF is_ebgp(entry.from_type)
            THEN Some(UnwrapOr(Get(r.policy_bgp_local_pref, entry.from_id),
                               DefaultLocalPref))
            ELSE entry.route.local_pref
        hop == entry.route.next_hop
        new_route ==
            [clone_default(entry.route) EXCEPT
                !.local_pref = local_pref,
                !.next_hop = IF is_ebgp(entry.from_type)
                             THEN entry.from_id ELSE @]
    IN  IF is_ibgp(entry.from_type) /\ ~ Has(r.igp_forwarding_table, hop)
        THEN Err("RouterNotFound", hop)
        ELSE IF is_ibgp(entry.from_type) /\ IsNone(r.igp_forwarding_table[hop])
        THEN Err("RouterNotReachable", hop)
        ELSE Ok(RIBEntry(new_route, entry.from_type, entry.from_id,
                         Some(IF is_ibgp(entry.from_type)
                              THEN r.igp_forwarding_table[hop][1][2]
                              ELSE 0)))

(* a route sent as it was selected, whatever the session of the peer *)
rib_out_route_unchanged(r, entry, target_peer) ==
    LET t == get_bgp_session_type(r, target_peer)
    IN  IF ~ t.ok THEN t
        ELSE Ok(RIBEntry(entry.route, t.val, entry.from_id, entry.igp_cost))

process_bgp_rib_out_route(r, entry, target_peer) ==
    LET new_route ==
            IF target_peer \in r.ebgp_sessions
            THEN [entry.route EXCEPT !.next_hop = r.router_id,
                                     !.local_pref = None]
            ELSE entry.route
        t == get_bgp_session_type(r, target_peer)
    IN  IF ~ t.ok THEN t
        ELSE Ok(RIBEntry(new_route, t.val, entry.from_id, entry.igp_cost))

(* an export filter that is split horizon only *)
export_unless_sender(r, from, to) ==
    IF from = to THEN Ok(FALSE)
    ELSE LET from_type == get_bgp_session_type(r, from)
             to_type == get_bgp_session_type(r, to)
         IN  IF ~ from_type.ok THEN from_type
             ELSE IF ~ to_type.ok THEN to_type
             ELSE Ok(TRUE)

should_export_route(r, from, to) ==
    IF from = to THEN Ok(FALSE)
    ELSE IF << from, to >> \in r.policy_bgp_route_no_export THEN Ok(FALSE)
    ELSE LET from_type == get_bgp_session_type(r, from)
             to_type == get_bgp_session_type(r, to)
         IN  IF ~ from_type.ok THEN from_type
             ELSE IF ~ to_type.ok THEN to_type
             ELSE Ok(CASE from_type.val = "EBgp" -> TRUE
                       [] from_type.val = "IBgpClient" -> TRUE
                       [] to_type.val = "EBgp" -> TRUE
                       [] to_type.val = "IBgpClient" -> TRUE
                       [] OTHER -> FALSE)

(* The keys of a hash map or the members of a hash set, in the iteration   *)
(* order given by ord (a sequence that lists at least those elements).     *)
IterOrder(ord, S) == SelectSeq(ord, LAMBDA k : k \in S)

RECURSIVE find_best(_, _, _, _)
(* the loop of run_bgp_decision_process_for_prefix over rib_in.values() *)
find_best(r, rib_in, ord, new_entry) ==
    IF ord = << >> THEN Ok(new_entry)
    ELSE LET keep_better(entry) ==
                 IF ~ entry.ok THEN entry
                 ELSE LET better ==
                              IF IsSome(new_entry)
                              THEN partial_cmp(entry.val, new_entry[1]) = "Greater"
                              ELSE TRUE
                      IN  find_best(r, rib_in, Tail(ord),
                                    IF better THEN Some(entry.val) ELSE new_entry)
         IN  keep_better(process_bgp_rib_in_route(r, rib_in[Head(ord)]))

(* a decision that keeps the stored entry while the best route comes from  *)
(* the neighbour it came from                                              *)
decision_by_neighbour(r, prefix, ord) ==
    LET old_entry == Get(r.bgp_rib, prefix)
        same(a, b) ==
            IF IsSome(a) /\ IsSome(b) THEN a[1].from_id = b[1].from_id
            ELSE IsSome(a) = IsSome(b)
        replace(new_entry) ==
            IF ~ new_entry.ok THEN [router |-> r, res |-> new_entry]
            ELSE IF ~ same(new_entry.val, old_entry)
            THEN [router |->
                    IF IsSome(new_entry.val)
                    THEN [r EXCEPT !.bgp_rib = Put(@, prefix, new_entry.val[1])]
                    ELSE [r EXCEPT !.bgp_rib = Del(@, prefix)],
                  res |-> Ok(<< >>)]
            ELSE [router |-> r, res |-> Ok(<< >>)]
    IN  replace(IF Has(r.bgp_rib_in, prefix)
                THEN find_best(r, r.bgp_rib_in[prefix],
                               IterOrder(ord, DOMAIN r.bgp_rib_in[prefix]), None)
                ELSE Ok(None))

(* phase 2; ord is the iteration order of rib_in[prefix] *)
run_bgp_decision_process_for_prefix(r, prefix, ord) ==
    LET old_entry == Get(r.bgp_rib, prefix)
        replace(new_entry) ==
            IF ~ new_entry.ok THEN [router |-> r, res |-> new_entry]
            ELSE IF ~ OptRibEq(new_entry.val, old_entry)
            THEN [router |->
                    IF IsSome(new_entry.val)
                    THEN [r EXCEPT !.bgp_rib = Put(@, prefix, new_entry.val[1])]
                    ELSE [r EXCEPT !.bgp_rib = Del(@, prefix)],
                  res |-> Ok(<< >>)]
            ELSE [router |-> r, res |-> Ok(<< >>)]
    IN  replace(IF Has(r.bgp_rib_in, prefix)
                THEN find_best(r, r.bgp_rib_in[prefix],
                               IterOrder(ord, DOMAIN r.bgp_rib_in[prefix]), None)
                ELSE Ok(None))

(* a match that leaves a route it may no longer export in rib_out and     *)
(* sends nothing                                                           *)
match_keeping_refused(r, prefix, peer, best_route, current_route, export) ==
    LET send == [router |-> [r EXCEPT !.bgp_rib_out[prefix] =
                                          Put(@, peer, best_route[1])],
                 event |-> Some(Update(best_route[1].route)),
                 res |-> Ok(<< >>)]
        withdraw == [router |-> [r EXCEPT !.bgp_rib_out[prefix] = Del(@, peer)],
                     event |-> Some(Withdraw(prefix)),
                     res |-> Ok(<< >>)]
        nothing == [router |-> r, event |-> None, res |-> Ok(<< >>)]
        failed == [router |-> r, event |-> None, res |-> export]
    IN  IF IsSome(best_route)
        THEN IF IsSome(current_route) /\ RibEq(best_route[1], current_route[1])
             THEN nothing
             ELSE IF ~ export.ok THEN failed
             ELSE IF export.val THEN send ELSE nothing
        ELSE IF IsSome(current_route) THEN withdraw
        ELSE nothing

(* a match that sends the route again when rib_out holds it already *)
match_resending(r, prefix, peer, best_route, current_route, export) ==
    LET send == [router |-> [r EXCEPT !.bgp_rib_out[prefix] =
                                          Put(@, peer, best_route[1])],
                 event |-> Some(Update(best_route[1].route)),
                 res |-> Ok(<< >>)]
        withdraw == [router |-> [r EXCEPT !.bgp_rib_out[prefix] = Del(@, peer)],
                     event |-> Some(Withdraw(prefix)),
                     res |-> Ok(<< >>)]
        nothing == [router |-> r, event |-> None, res |-> Ok(<< >>)]
        failed == [router |-> r, event |-> None, res |-> export]
    IN  IF IsSome(best_route) /\ IsSome(current_route)
        THEN IF RibEq(best_route[1], current_route[1]) THEN send
             ELSE IF ~ export.ok THEN failed
             ELSE IF export.val THEN send ELSE withdraw
        ELSE IF IsSome(best_route)
        THEN IF ~ export.ok THEN failed
             ELSE IF export.val THEN send ELSE nothing
        ELSE IF IsSome(current_route) THEN withdraw
        ELSE nothing

(* the match of phase 3 on (best_route, current_route) for one peer;       *)
(* export is the result of should_export_route where the match calls it    *)
match_routes(r, prefix, peer, best_route, current_route, export) ==
    LET send == [router |-> [r EXCEPT !.bgp_rib_out[prefix] =
                                          Put(@, peer, best_route[1])],
                 event |-> Some(Update(best_route[1].route)),
                 res |-> Ok(<< >>)]
        withdraw == [router |-> [r EXCEPT !.bgp_rib_out[prefix] = Del(@, peer)],
                     event |-> Some(Withdraw(prefix)),
                     res |-> Ok(<< >>)]
        nothing == [router |-> r, event |-> None, res |-> Ok(<< >>)]
        failed == [router |-> r, event |-> None, res |-> export]
    IN  IF IsSome(best_route) /\ IsSome(current_route)
        THEN IF RibEq(best_route[1], current_route[1]) THEN nothing
             ELSE IF ~ export.ok THEN failed
             ELSE IF export.val THEN send ELSE withdraw
        ELSE IF IsSome(best_route)
        THEN IF ~ export.ok THEN failed
             ELSE IF export.val THEN send ELSE nothing
        ELSE IF IsSome(current_route) THEN withdraw
        ELSE nothing

(* One iteration of the loop over bgp_peers in phase 3: the router as it   *)
(* is left, the event that is pushed (an Option) and the result.           *)
disseminate_to_peer(r, prefix, peer) ==
    LET with_best(processed) ==
            IF ~ processed.ok THEN [router |-> r, event |-> None, res |-> processed]
            ELSE IF Has(r.bgp_rib, prefix)
            THEN match_routes(r, prefix, peer, Some(processed.val),
                              Get(r.bgp_rib_out[prefix], peer),
                              should_export_route(r, processed.val.from_id, peer))
            ELSE match_routes(r, prefix, peer, None,
                              Get(r.bgp_rib_out[prefix], peer), Ok(FALSE))
    IN  with_best(IF Has(r.bgp_rib, prefix)
                  THEN process_bgp_rib_out_route(r, r.bgp_rib[prefix], peer)
                  ELSE Ok(<< >>))

RECURSIVE disseminate(_, _, _, _)
(* the loop of phase 3 over bgp_peers in the order ord; events collects    *)
(* what is pushed to the queue                                             *)
disseminate(r, prefix, ord, events) ==
    IF ord = << >> THEN [router |-> r, events |-> events, res |-> Ok(<< >>)]
    ELSE LET next(step) ==
                 IF ~ step.res.ok
                 THEN [router |-> step.router, events |-> events, res |-> step.res]
                 ELSE disseminate(step.router, prefix, Tail(ord),
                                  IF IsSome(step.event)
                                  THEN Append(events,
                                         EventBgp(r.router_id, Head(ord),
                                                  step.event[1]))
                                  ELSE events)
         IN  next(disseminate_to_peer(r, prefix, Head(ord)))

(* phase 3; ord is the iteration order of the set of session peers *)
run_bgp_route_dissemination_for_prefix(r, prefix, ord) ==
    LET r1 == IF Has(r.bgp_rib_out, prefix) THEN r
              ELSE [r EXCEPT !.bgp_rib_out = Put(@, prefix, EmptyMap)]
    IN  disseminate(r1, prefix, IterOrder(ord, bgp_peers(r1)), << >>)

(* phases 2 and 3 without the insertion into bgp_known_prefixes *)
decide_unrecorded(r, phase1, dord, pord) ==
    LET prefix == phase1.res.val
        phase3(phase2) ==
            IF ~ phase2.res.ok
            THEN [router |-> phase2.router, events |-> << >>, res |-> phase2.res]
            ELSE run_bgp_route_dissemination_for_prefix(phase2.router, prefix, pord)
    IN  IF ~ phase1.res.ok
        THEN [router |-> r, events |-> << >>, res |-> phase1.res]
        ELSE phase3(run_bgp_decision_process_for_prefix(phase1.router, prefix,
                                                        dord))

(* phases 2 and 3 of handle_event, after phase 1 left the router and the   *)
(* prefix in phase1                                                        *)
decide_and_disseminate(r, phase1, dord, pord) ==
    LET prefix == phase1.res.val
        phase3(phase2) ==
            IF ~ phase2.res.ok
            THEN [router |-> phase2.router, events |-> << >>, res |-> phase2.res]
            ELSE run_bgp_route_dissemination_for_prefix(phase2.router, prefix, pord)
    IN  IF ~ phase1.res.ok
        THEN [router |-> r, events |-> << >>, res |-> phase1.res]
        ELSE phase3(run_bgp_decision_process_for_prefix(
                        [phase1.router EXCEPT
                            !.bgp_known_prefixes = @ \cup {prefix}],
                        prefix, dord))

(* impl NetworkDevice for Router: handle_event.  dord is the iteration     *)
(* order of rib_in[prefix] in phase 2, pord that of the peers in phase 3.  *)
(* a handler that stores the route of an Update before it looks for the   *)
(* session of the sender                                                   *)
handle_storing_first(r, event, dord, pord) ==
    LET stored == [r EXCEPT !.bgp_rib_in =
                      Put(@, event.msg.prefix,
                          Put(IF Has(@, event.msg.prefix) THEN @[event.msg.prefix]
                              ELSE EmptyMap,
                              event.from,
                              RIBEntry(event.msg.route[1], "IBgpPeer",
                                       event.from, None)))]
    IN  IF event.to # r.router_id
        THEN [router |-> r, events |-> << >>, res |-> Ok(<< >>)]
        ELSE IF event.msg.type = "Update"
                /\ ~ get_bgp_session_type(r, event.from).ok
        THEN [router |-> stored, events |-> << >>,
              res |-> get_bgp_session_type(r, event.from)]
        ELSE decide_and_disseminate(r,
                 IF event.msg.type = "Update"
                 THEN insert_bgp_route(r, event.msg.route[1], event.from)
                 ELSE [router |-> remove_bgp_route(r, event.msg.prefix, event.from),
                       res |-> Ok(event.msg.prefix)],
                 dord, pord)

handle_event(r, event, dord, pord) ==
    IF event.to # r.router_id
    THEN [router |-> r, events |-> << >>, res |-> Ok(<< >>)]
    ELSE decide_and_disseminate(r,
             IF event.msg.type = "Update"
             THEN insert_bgp_route(r, event.msg.route[1], event.from)
             ELSE [router |-> remove_bgp_route(r, event.msg.prefix, event.from),
                   res |-> Ok(event.msg.prefix)],
             dord, pord)

RECURSIVE decision_loop(_, _, _)
(* bgp_decision_process: the loop over bgp_known_prefixes in the order     *)
(* prefixes; dords gives, per prefix, the iteration order of its rib_in    *)
decision_loop(r, prefixes, dords) ==
    IF prefixes = << >> THEN [router |-> r, res |-> Ok(<< >>)]
    ELSE LET next(step) ==
                 IF ~ step.res.ok THEN step
                 ELSE decision_loop(step.router, Tail(prefixes), dords)
         IN  next(run_bgp_decision_process_for_prefix(
                      r, Head(prefixes), dords[Head(prefixes)]))

bgp_decision_process(r, prefixes, dords) ==
    decision_loop(r, IterOrder(prefixes, r.bgp_known_prefixes), dords)

RECURSIVE dissemination_loop(_, _, _, _)
(* bgp_route_dissemination: the loop over bgp_known_prefixes; pords gives, *)
(* per prefix, the iteration order of the peers                            *)
dissemination_loop(r, prefixes, pords, events) ==
    IF prefixes = << >> THEN [router |-> r, events |-> events, res |-> Ok(<< >>)]
    ELSE LET next(step) ==
                 IF ~ step.res.ok
                 THEN [router |-> step.router, events |-> events \o step.events,
                       res |-> step.res]
                 ELSE dissemination_loop(step.router, Tail(prefixes), pords,
                                         events \o step.events)
         IN  next(run_bgp_route_dissemination_for_prefix(
                      r, Head(prefixes), pords[Head(prefixes)]))

bgp_route_dissemination(r, prefixes, pords) ==
    dissemination_loop(r, IterOrder(prefixes, r.bgp_known_prefixes), pords, << >>)

(* the BGP next hop of the selected route taken for the IGP next hop *)
egress_as_next_hop(r, prefix) ==
    IF ~ Has(r.bgp_rib, prefix) THEN Ok(None)
    ELSE Ok(Some(r.bgp_rib[prefix].route.next_hop))

(* get_next_hop: Some(hop), None, or a panic of the first unwrap *)
get_next_hop(r, prefix) ==
    IF ~ Has(r.bgp_rib, prefix) THEN Ok(None)
    ELSE LET hop == r.bgp_rib[prefix].route.next_hop
         IN  IF ~ Has(r.igp_forwarding_table, hop) THEN Err("Panic", hop)
             ELSE IF IsNone(r.igp_forwarding_table[hop]) THEN Ok(None)
             ELSE Ok(Some(r.igp_forwarding_table[hop][1][1]))

---------------------------------------------------------------------------
(* The IGP graph (petgraph StableGraph) and the shortest paths             *)

Infinity == 1000000

(* LinkWeight addition, with the infinite weight absorbing *)
Plus(a, b) == IF a = Infinity \/ b = Infinity THEN Infinity ELSE a + b

NewGraph == [n |-> 0, edges |-> << >>]

(* a node index of the graph; nodes are never removed *)
IsNode(g, a) == a \in 0..(g.n - 1)

(* StableGraph::add_edge: the graph with the edge appended, or the panic   *)
(* for an index that is not a node, which leaves the graph as it is        *)
GraphAddEdge(g, a, b, w) ==
    IF ~ (IsNode(g, a) /\ IsNode(g, b))
    THEN [g |-> g, res |-> Err("Panic", IF a > b THEN a ELSE b)]
    ELSE [g |-> [g EXCEPT !.edges =
                    Append(@, [source |-> a, target |-> b, weight |-> w])],
          res |-> Ok(<< >>)]

(* update_edge: the weight of the existing edge a -> b, or a new edge *)
GraphUpdateEdge(g, a, b, w) ==
    IF \E i \in 1..Len(g.edges) : g.edges[i].source = a /\ g.edges[i].target = b
    THEN LET i == CHOOSE i \in 1..Len(g.edges) :
                      /\ g.edges[i].source = a /\ g.edges[i].target = b
                      /\ \A j \in (i+1)..Len(g.edges) :
                            ~ (g.edges[j].source = a /\ g.edges[j].target = b)
         IN  [g |-> [g EXCEPT !.edges[i].weight = w], res |-> Ok(<< >>)]
    ELSE GraphAddEdge(g, a, b, w)

RECURSIVE Reverse(_)
Reverse(q) == IF q = << >> THEN << >> ELSE Append(Reverse(Tail(q)), Head(q))

(* edges(i): the outgoing edges of node i, the most recently added first *)
EdgesOf(g, i) == Reverse(SelectSeq(g.edges, LAMBDA e : e.source = i))

(* the edges in the order they were added to the graph, whatever their     *)
(* source node                                                             *)
edges_as_inserted(g, i) == g.edges

RECURSIVE ScanOrder(_, _)
(* the edges in the order one pass of bellman_ford relaxes them: node by   *)
(* node in index order, each node's edges(i)                               *)
ScanOrder(g, i) ==
    IF i >= g.n THEN << >> ELSE EdgesOf(g, i) \o ScanOrder(g, i + 1)

RECURSIVE Relax(_, _)
(* one pass over the edges, updating distance and predecessor in place *)
Relax(edges, st) ==
    IF edges = << >> THEN st
    ELSE LET e == Head(edges)
             d == Plus(st.distance[e.source], e.weight)
         IN  IF d < st.distance[e.target]
             THEN Relax(Tail(edges),
                        [distance |-> [st.distance EXCEPT ![e.target] = d],
                         predecessor |-> [st.predecessor EXCEPT
                                             ![e.target] = Some(e.source)],
                         did_update |-> TRUE])
             ELSE Relax(Tail(edges), st)

RECURSIVE Passes(_, _, _)
(* at most |V| - 1 passes, stopping after a pass without update *)
Passes(g, k, st) ==
    IF k = 0 THEN st
    ELSE LET again(nxt) == IF nxt.did_update THEN Passes(g, k - 1, nxt) ELSE nxt
         IN  again(Relax(ScanOrder(g, 0), [st EXCEPT !.did_update = FALSE]))

(* petgraph::algo::bellman_ford for non-negative weights *)
bellman_ford(g, source) ==
    Passes(g, g.n - 1,
           [distance |-> [i \in 0..(g.n - 1) |-> IF i = source THEN 0 ELSE Infinity],
            predecessor |-> [i \in 0..(g.n - 1) |-> None],
            did_update |-> FALSE])

RECURSIVE StableSortByCost(_, _)
(* paths.sort_by(cost): the stable sort, ties stay in index order *)
StableSortByCost(S, cost) ==
    IF S = {} THEN << >>
    ELSE LET m == CHOOSE x \in S :
                    \A y \in S : cost[x] < cost[y] \/ (cost[x] = cost[y] /\ x <= y)
         IN  << m >> \o StableSortByCost(S \ {m}, cost)

RECURSIVE fill_table(_, _, _, _)
(* the loop of write_igp_forwarding_table over the sorted paths; a failed  *)
(* unwrap is the result Err("Panic", router)                               *)
fill_table(self_id, sp, paths, table) ==
    IF paths = << >> THEN [table |-> table, res |-> Ok(<< >>)]
    ELSE LET router == Head(paths)
             cost == sp.distance[router]
             pred == sp.predecessor[router]
         IN  IF cost = Infinity
             THEN fill_table(self_id, sp, Tail(paths), Put(table, router, None))
             ELSE IF IsSome(pred) /\ pred[1] # self_id
                     /\ (~ Has(table, pred[1]) \/ IsNone(table[pred[1]]))
             THEN [table |-> table, res |-> Err("Panic", router)]
             ELSE LET next_hop ==
                          IF IsSome(pred) /\ pred[1] # self_id
                          THEN table[pred[1]][1][1]
                          ELSE router
                  IN  fill_table(self_id, sp, Tail(paths),
                                 Put(table, router, Some(<< next_hop, cost >>)))

write_igp_forwarding_table(r, g) ==
    LET written(filled) ==
            [router |-> [r EXCEPT !.igp_forwarding_table = filled.table],
             res |-> filled.res]
        fill(sp) ==
            written(fill_table(r.router_id, sp,
                               StableSortByCost(0..(g.n - 1), sp.distance),
                               EmptyMap))
    IN  fill(bellman_ford(g, r.router_id))

---------------------------------------------------------------------------
(* external_router.rs                                                      *)

NewExternalRouter(router_id) == [router_id |-> router_id, neighbors |-> {}]

(* an advertisement that reaches the first neighbour only *)
advertise_to_first(e, prefix, as_path, med, ord) ==
    LET route == BgpRoute(prefix, as_path, e.router_id, None, med)
        nbrs == IterOrder(ord, e.neighbors)
    IN  [i \in 1..(IF nbrs = << >> THEN 0 ELSE 1) |->
            EventBgp(e.router_id, nbrs[i], Update(route))]

(* advertise_prefix; ord is the iteration order of self.neighbors *)
advertise_prefix(e, prefix, as_path, med, ord) ==
    LET route == BgpRoute(prefix, as_path, e.router_id, None, med)
        nbrs == IterOrder(ord, e.neighbors)
    IN  [i \in 1..Len(nbrs) |-> EventBgp(e.router_id, nbrs[i], Update(route))]

(* widthdraw_prefix [sic] *)
widthdraw_prefix(e, prefix, ord) ==
    LET nbrs == IterOrder(ord, e.neighbors)
    IN  [i \in 1..Len(nbrs) |-> EventBgp(e.router_id, nbrs[i], Withdraw(prefix))]

---------------------------------------------------------------------------
(* network.rs: the operations on a Network value t.  Each returns the      *)
(* network as the call leaves it and the call's result; an operation that  *)
(* ends in `self.do_queue()` returns EnterQueue, and the loop is run by    *)
(* the DoQueueStep action, which supplies the result.                      *)

EnterQueue == [ok |-> TRUE, val |-> TRUE, err |-> << "do_queue" >>]

DEFAULT_STOP_AFTER == 10000

NetworkNew ==
    [net |-> NewGraph, routers |-> EmptyMap, external_routers |-> EmptyMap,
     queue |-> << >>, stop_after |-> Some(DEFAULT_STOP_AFTER)]

stop_after_queue(t, stop_after) == [t EXCEPT !.stop_after = stop_after]

add_router(t) ==
    [t EXCEPT !.net.n = @ + 1,
              !.routers = Put(@, t.net.n, NewRouter(t.net.n))]

add_external_router(t) ==
    [t EXCEPT !.net.n = @ + 1,
              !.external_routers = Put(@, t.net.n, NewExternalRouter(t.net.n))]

(* one of the two halves of add_edge: ext is external, other is the far end *)
connect_external(t, ext, other) ==
    LET t1 == [t EXCEPT !.external_routers[ext].neighbors = @ \cup {other}]
    IN  IF Has(t.external_routers, other) THEN [t |-> t1, res |-> Ok(<< >>)]
        ELSE IF ~ Has(t.routers, other)
        THEN [t |-> t1, res |-> Err("DeviceNotFound", other)]
        ELSE LET established(e) ==
                     [t |-> [t1 EXCEPT !.routers[other] = e.router], res |-> e.res]
             IN  established(establish_bgp_session(t1.routers[other], ext, "EBgp"))

(* the two self.net.add_edge calls come first: when one of them panics    *)
(* nothing after it is run                                                 *)
add_edge(t, source, target, weight, rev_w) ==
    LET forward == GraphAddEdge(t.net, source, target, weight)
        backward == GraphAddEdge(forward.g, target, source,
                                 UnwrapOr(rev_w, weight))
        t1 == [t EXCEPT !.net = backward.g]
        then_target(s) ==
            IF ~ s.res.ok THEN s
            ELSE IF Has(t.external_routers, target)
            THEN connect_external(s.t, target, source)
            ELSE s
    IN  IF ~ forward.res.ok THEN [t |-> t, res |-> forward.res]
        ELSE IF ~ backward.res.ok THEN [t |-> t1, res |-> backward.res]
        ELSE then_target(IF Has(t.external_routers, source)
                         THEN connect_external(t1, source, target)
                         ELSE [t |-> t1, res |-> Ok(<< >>)])

(* the network as the call leaves it; res is Ok(()) or the panic of        *)
(* update_edge for an index that is not a node                             *)
update_edge_weight(t, source, target, weight, rev_w) ==
    LET forward == GraphUpdateEdge(t.net, source, target, weight)
        backward == GraphUpdateEdge(forward.g, target, source,
                                    UnwrapOr(rev_w, weight))
    IN  IF ~ forward.res.ok THEN [t |-> t, res |-> forward.res]
        ELSE [t |-> [t EXCEPT !.net = backward.g], res |-> backward.res]

(* The iteration orders one schedule_update_router call draws: the order   *)
(* of the known prefixes in each of the two loops, and per prefix the      *)
(* order of rib_in in phase 2 and of the peers in phase 3.  new_peers are  *)
(* the sessions the call establishes before it schedules the update.       *)
ScheduleOrders(r, new_peers) ==
    [dprefixes : Perms(r.bgp_known_prefixes),
     dords : [r.bgp_known_prefixes ->
                Perms(UNION { DOMAIN r.bgp_rib_in[p] : p \in DOMAIN r.bgp_rib_in })],
     pprefixes : Perms(r.bgp_known_prefixes),
     pords : [r.bgp_known_prefixes -> Perms(bgp_peers(r) \cup new_peers)]]

schedule_update_router(t, router, o) ==
    IF ~ Has(t.routers, router)
    THEN [t |-> t, events |-> << >>, res |-> Err("DeviceNotFound", router)]
    ELSE LET pushed(x) ==
                 [t |-> [t EXCEPT !.routers[router] = x.router,
                                  !.queue = @ \o x.events],
                  events |-> x.events, res |-> x.res]
             decided_first(d) ==
                 IF ~ d.res.ok
                 THEN [t |-> [t EXCEPT !.routers[router] = d.router],
                       events |-> << >>, res |-> d.res]
                 ELSE pushed(bgp_route_dissemination(d.router, o.pprefixes,
                                                     o.pords))
         IN  decided_first(bgp_decision_process(t.routers[router], o.dprefixes,
                                                o.dords))

(* if update { schedule source; schedule target; do_queue } else Ok(true) *)
update_both(t, source, target, update, os, ot) ==
    IF ~ update THEN [t |-> t, events |-> << >>, res |-> Ok(TRUE)]
    ELSE LET both(a, b) ==
                 [t |-> b.t, events |-> a.events \o b.events,
                  res |-> IF ~ b.res.ok THEN b.res ELSE EnterQueue]
             then_target(a) ==
                 IF ~ a.res.ok THEN a
                 ELSE both(a, schedule_update_router(a.t, target, ot))
         IN  then_target(schedule_update_router(t, source, os))

add_ibgp_session(t, source, target, route_reflector, update, os, ot) ==
    IF ~ Has(t.routers, source)
    THEN [t |-> t, events |-> << >>, res |-> Err("DeviceNotFound", source)]
    ELSE LET at_target(t1, b) ==
                 IF ~ b.res.ok
                 THEN [t |-> t1, events |-> << >>, res |-> b.res]
                 ELSE update_both([t1 EXCEPT !.routers[target] = b.router],
                                  source, target, update, os, ot)
             at_source(a, t1) ==
                 IF ~ a.res.ok THEN [t |-> t, events |-> << >>, res |-> a.res]
                 ELSE IF ~ Has(t.routers, target)
                 THEN [t |-> t1, events |-> << >>,
                       res |-> Err("DeviceNotFound", source)]
                 ELSE at_target(t1, establish_bgp_session(t1.routers[target],
                                                          source, "IBgpPeer"))
             with_source(a) == at_source(a, [t EXCEPT !.routers[source] = a.router])
         IN  with_source(establish_bgp_session(t.routers[source], target,
                             IF route_reflector THEN "IBgpClient" ELSE "IBgpPeer"))

remove_ibgp_session(t, source, target, update, os, ot) ==
    IF ~ Has(t.routers, source)
    THEN [t |-> t, events |-> << >>, res |-> Err("DeviceNotFound", source)]
    ELSE LET at_target(t1, b) ==
                 IF ~ b.res.ok
                 THEN [t |-> t1, events |-> << >>, res |-> b.res]
                 ELSE update_both([t1 EXCEPT !.routers[target] = b.router],
                                  source, target, update, os, ot)
             at_source(a, t1) ==
                 IF ~ a.res.ok THEN [t |-> t, events |-> << >>, res |-> a.res]
                 ELSE IF ~ Has(t.routers, target)
                 THEN [t |-> t1, events |-> << >>,
                       res |-> Err("DeviceNotFound", target)]
                 ELSE at_target(t1, close_bgp_session(t1.routers[target], source))
             with_source(a) == at_source(a, [t EXCEPT !.routers[source] = a.router])
         IN  with_source(close_bgp_session(t.routers[source], target))

get_router_name(t, router_id) ==
    IF Has(t.routers, router_id) \/ Has(t.external_routers, router_id)
    THEN Ok(router_id)
    ELSE Err("DeviceNotFound", router_id)

(* print_event: only its result matters, the names it fails to look up *)
print_event(t, event) ==
    IF ~ get_router_name(t, event.from).ok THEN get_router_name(t, event.from)
    ELSE IF ~ get_router_name(t, event.to).ok THEN get_router_name(t, event.to)
    ELSE IF event.msg.type = "Update"
            /\ ~ get_router_name(t, event.msg.route[1].next_hop).ok
    THEN get_router_name(t, event.msg.route[1].next_hop)
    ELSE Ok(<< >>)

RECURSIVE schedule_all(_, _, _, _)
(* for r in routers.keys() { schedule_update_router(r)? } *)
schedule_all(t, rord, os, events) ==
    IF rord = << >> THEN [t |-> t, events |-> events, res |-> EnterQueue]
    ELSE LET next(a) ==
                 IF ~ a.res.ok
                 THEN [t |-> a.t, events |-> events \o a.events, res |-> a.res]
                 ELSE schedule_all(a.t, Tail(rord), os, events \o a.events)
         IN  next(schedule_update_router(t, Head(rord), os[Head(rord)]))

RECURSIVE write_tables(_, _)
(* for router in order { write_igp_forwarding_table(&net)? } *)
write_tables(t, order) ==
    IF order = << >> THEN [t |-> t, res |-> Ok(<< >>)]
    ELSE IF ~ Has(t.routers, Head(order))
    THEN [t |-> t, res |-> Err("DeviceNotFound", Head(order))]
    ELSE LET next(w) ==
                 IF ~ w.res.ok
                 THEN [t |-> [t EXCEPT !.routers[Head(order)] = w.router],
                       res |-> w.res]
                 ELSE write_tables([t EXCEPT !.routers[Head(order)] = w.router],
                                   Tail(order))
         IN  next(write_igp_forwarding_table(t.routers[Head(order)], t.net))

(* write_igp_fw_tables_order; write_igp_fw_tables is the same with the     *)
(* routers in the iteration orders of the map (worder, then rord)          *)
write_igp_fw_tables_order(t, worder, rord, update, os) ==
    LET then_update(w) ==
            IF ~ w.res.ok THEN [t |-> w.t, events |-> << >>, res |-> w.res]
            ELSE IF update THEN schedule_all(w.t, rord, os, << >>)
            ELSE [t |-> w.t, events |-> << >>, res |-> Ok(TRUE)]
    IN  then_update(write_tables(t, worder))

write_igp_fw_tables(t, update, worder, rord, os) ==
    write_igp_fw_tables_order(t, IterOrder(worder, DOMAIN t.routers),
                              IterOrder(rord, DOMAIN t.routers), update, os)

advertise_external_route(t, source, prefix, as_path, med, update, ord) ==
    IF ~ Has(t.external_routers, source)
    THEN [t |-> t, events |-> << >>, res |-> Err("DeviceNotFound", source)]
    ELSE LET pushed(evs) ==
                 [t |-> [t EXCEPT !.queue = @ \o evs], events |-> evs,
                  res |-> IF update THEN EnterQueue ELSE Ok(TRUE)]
         IN  pushed(advertise_prefix(t.external_routers[source], prefix,
                                     as_path, med, ord))

retract_external_route(t, source, prefix, update, ord) ==
    IF ~ Has(t.external_routers, source)
    THEN [t |-> t, events |-> << >>, res |-> Err("DeviceNotFound", source)]
    ELSE LET pushed(evs) ==
                 [t |-> [t EXCEPT !.queue = @ \o evs], events |-> evs,
                  res |-> IF update THEN EnterQueue ELSE Ok(TRUE)]
         IN  pushed(widthdraw_prefix(t.external_routers[source], prefix, ord))

RECURSIVE follow(_, _, _, _, _)
(* the loop of get_route from current_node on *)
follow(t, prefix, current_node, visited_routers, result) ==
    IF ~ (Has(t.routers, current_node) \/ Has(t.external_routers, current_node))
    THEN Err("DeviceNotFound", current_node)
    ELSE IF ~ Has(t.routers, current_node)
    THEN Ok(Append(result, current_node))
    ELSE IF current_node \in visited_routers
    THEN Err("ForwardingLoop", Append(result, current_node))
    ELSE LET forward(hop) ==
                 IF ~ hop.ok THEN hop
                 ELSE IF IsNone(hop.val)
                 THEN Err("ForwardingBlackHole", Append(result, current_node))
                 ELSE follow(t, prefix, hop.val[1],
                             visited_routers \cup { current_node },
                             Append(result, current_node))
         IN  forward(get_next_hop(t.routers[current_node], prefix))

get_route(t, source, prefix) ==
    IF Has(t.external_routers, source)
    THEN Err("DeviceIsExternalRouter", source)
    ELSE follow(t, prefix, source, {}, << >>)

(* if rem == 0 { return Ok(false) } *)
cap_reached(remaining_iter) == IsSome(remaining_iter) /\ remaining_iter[1] = 0

(* do_queue without the countdown *)
no_countdown(remaining_iter) == remaining_iter

(* remaining_iter = Some(rem - 1) *)
decrement(remaining_iter) ==
    IF IsSome(remaining_iter) THEN Some(remaining_iter[1] - 1) ELSE remaining_iter

(* the call returns res in this iteration *)
returned(t, remaining_iter, res) ==
    [t |-> t, remaining_iter |-> remaining_iter, ret |-> Some(res),
     handled |-> None, events |-> << >>, res |-> Ok(<< >>)]

(* a match in which every error is returned *)
every_error_returned(t1, working_router_id, event_result) ==
    IF event_result.ok THEN None ELSE Some(event_result)

(* match event_result: Ok(()) and NoBgpSession go on with the loop (None),  *)
(* the latter after a log line that looks up the names of the working      *)
(* router and of the peer; any other error is returned                     *)
match_event_result(t1, working_router_id, event_result) ==
    IF event_result.ok THEN None
    ELSE IF event_result.err[1] = "NoBgpSession"
    THEN IF ~ get_router_name(t1, working_router_id).ok
         THEN Some(get_router_name(t1, working_router_id))
         ELSE IF ~ get_router_name(t1, event_result.err[2]).ok
         THEN Some(get_router_name(t1, event_result.err[2]))
         ELSE None
    ELSE Some(event_result)

(* a loop body whose handler puts its events in front of the queue *)
dispatch_push_front(t1, event, rem, dord, pord) ==
    LET executed(h) ==
            [t |-> IF Has(t1.routers, event.to)
                   THEN [t1 EXCEPT !.routers[event.to] = h.router,
                                   !.queue = h.events \o @]
                   ELSE t1,
             remaining_iter |-> rem,
             ret |-> match_event_result(t1, event.to, h.res),
             handled |-> Some(event), events |-> h.events, res |-> h.res]
        after_print(printed) ==
            IF ~ printed.ok THEN returned(t1, rem, printed)
            ELSE executed(IF Has(t1.routers, event.to)
                          THEN handle_event(t1.routers[event.to], event, dord, pord)
                          ELSE [router |-> << >>, events |-> << >>,
                                res |-> IF Has(t1.external_routers, event.to)
                                        THEN Ok(<< >>)
                                        ELSE Err("DeviceNotFound", event.to)])
    IN  after_print(print_event(t1, event))

(* the body of the loop after the cap test: print and execute the event *)
dispatch(t1, event, rem, dord, pord) ==
    LET executed(h) ==
            [t |-> IF Has(t1.routers, event.to)
                   THEN [t1 EXCEPT !.routers[event.to] = h.router,
                                   !.queue = @ \o h.events]
                   ELSE t1,
             remaining_iter |-> rem,
             ret |-> match_event_result(t1, event.to, h.res),
             handled |-> Some(event), events |-> h.events, res |-> h.res]
        after_print(printed) ==
            IF ~ printed.ok THEN returned(t1, rem, printed)
            ELSE executed(IF Has(t1.routers, event.to)
                          THEN handle_event(t1.routers[event.to], event, dord, pord)
                          ELSE [router |-> << >>, events |-> << >>,
                                res |-> IF Has(t1.external_routers, event.to)
                                        THEN Ok(<< >>)
                                        ELSE Err("DeviceNotFound", event.to)])
    IN  after_print(print_event(t1, event))

(* do_queue with the cap tested before the queue is looked at *)
cap_tested_first(t, remaining_iter, dord, pord) ==
    IF cap_reached(remaining_iter) THEN returned(t, remaining_iter, Ok(FALSE))
    ELSE IF t.queue = << >> THEN returned(t, remaining_iter, Ok(TRUE))
    ELSE dispatch([t EXCEPT !.queue = Tail(@)], Head(t.queue),
                  decrement(remaining_iter), dord, pord)

(* an iteration that takes the event at the back of the queue *)
pop_back_iteration(t, remaining_iter, dord, pord) ==
    IF t.queue = << >> THEN returned(t, remaining_iter, Ok(TRUE))
    ELSE LET event == t.queue[Len(t.queue)]
             t1 == [t EXCEPT !.queue = SubSeq(@, 1, Len(@) - 1)]
         IN  IF cap_reached(remaining_iter)
             THEN returned(t1, remaining_iter, Ok(FALSE))
             ELSE dispatch(t1, event, decrement(remaining_iter), dord, pord)

(* One iteration of the while loop of do_queue, with remaining_iter as the *)
(* local variable: pop_front, the cap test, then the event.  ret is        *)
(* Some(result) when the call returns in this iteration; handled is        *)
(* Some(event) when the event was executed.                                *)
do_queue_iteration(t, remaining_iter, dord, pord) ==
    IF t.queue = << >> THEN returned(t, remaining_iter, Ok(TRUE))
    ELSE LET event == Head(t.queue)
             t1 == [t EXCEPT !.queue = Tail(@)]
         IN  IF cap_reached(remaining_iter)
             THEN returned(t1, remaining_iter, Ok(FALSE))
             ELSE dispatch(t1, event, decrement(remaining_iter), dord, pord)

---------------------------------------------------------------------------
(* Construction of a network, as the tests do it: the devices in id order, *)
(* the links, the iBGP sessions, then write_igp_fw_tables.  No prefix is   *)
(* known yet, so the update steps of these calls find nothing to do.       *)

NoOrders == [dprefixes |-> << >>, dords |-> EmptyMap,
             pprefixes |-> << >>, pords |-> EmptyMap]

RECURSIVE AddDevices(_, _)
AddDevices(t, kinds) ==
    IF kinds = << >> THEN t
    ELSE AddDevices(IF Head(kinds) = "external" THEN add_external_router(t)
                    ELSE add_router(t), Tail(kinds))

RECURSIVE AddEdges(_, _)
AddEdges(t, edges) ==
    IF edges = << >> THEN t
    ELSE LET next(added) ==
                 IF added.res.ok THEN AddEdges(added.t, Tail(edges)) ELSE added.t
         IN  next(add_edge(t, Head(edges)[1], Head(edges)[2], Head(edges)[3],
                           None))

RECURSIVE AddSessions(_, _)
AddSessions(t, sessions) ==
    IF sessions = << >> THEN t
    ELSE LET next(added) ==
                 IF added.res.ok THEN AddSessions(added.t, Tail(sessions))
                 ELSE added.t
         IN  next(add_ibgp_session(t, Head(sessions)[1], Head(sessions)[2],
                                   Head(sessions)[3], TRUE, NoOrders, NoOrders))

Build(kinds, edges, sessions) ==
    LET write(t, ids) ==
            write_igp_fw_tables(t, TRUE, ids, ids,
                                [r \in DOMAIN t.routers |-> NoOrders]).t
        built(t) == write(t, SetToSeq(DOMAIN t.routers))
    IN  built(AddSessions(AddEdges(AddDevices(NetworkNew, kinds), edges), sessions))

(* test_simple: e0 - b0 - r0 - r1 - b1 - e1 *)
S1 ==
    Build(<< "external", "router", "router", "router", "router", "external" >>,
          << << 0, 1, 1 >>, << 1, 2, 1 >>, << 2, 3, 1 >>, << 3, 4, 1 >>,
             << 4, 5, 1 >> >>,
          << << 2, 1, TRUE >>, << 3, 4, TRUE >>, << 2, 3, FALSE >> >>)

(* test_route_order1/2: e0 - b0 - r1 - r0 - b1 - e1 *)
S2 ==
    Build(<< "external", "router", "router", "router", "router", "external" >>,
          << << 0, 1, 1 >>, << 1, 3, 1 >>, << 2, 3, 1 >>, << 2, 4, 1 >>,
             << 4, 5, 1 >> >>,
          << << 2, 1, TRUE >>, << 3, 4, TRUE >>, << 2, 3, FALSE >> >>)

(* two reflectors over a shared client: r0 (0) reflects to b1 (4), r3 (3)  *)
(* reflects to r0, r5 (5) reflects to b1, r3 and r5 are peers; e1 (1) is   *)
(* linked to b1 and e2 (2) to r5                                           *)
S3 ==
    Build(<< "router", "external", "external", "router", "router", "router" >>,
          << << 0, 4, 1 >>, << 5, 0, 1 >>, << 3, 5, 1 >>, << 1, 4, 2 >>,
             << 2, 5, 1 >> >>,
          << << 3, 0, TRUE >>, << 0, 4, TRUE >>, << 3, 5, FALSE >>,
             << 5, 4, TRUE >> >>)

(* S1 without the link between r0 and r1: two islands, the sessions kept *)
S1Split ==
    Build(<< "external", "router", "router", "router", "router", "external" >>,
          << << 0, 1, 1 >>, << 1, 2, 1 >>, << 3, 4, 1 >>, << 4, 5, 1 >> >>,
          << << 2, 1, TRUE >>, << 3, 4, TRUE >>, << 2, 3, FALSE >> >>)

(* the network t before write_igp_fw_tables is called: every router has    *)
(* the empty table of Router::new                                          *)
Unwritten(t) ==
    [t EXCEPT !.routers =
        [r \in DOMAIN @ |-> [@[r] EXCEPT !.igp_forwarding_table = EmptyMap]]]

(* S1 with e0 linked to b1 as well: e0 has two neighbours *)
S4 ==
    Build(<< "external", "router", "router", "router", "router", "external" >>,
          << << 0, 1, 1 >>, << 1, 2, 1 >>, << 2, 3, 1 >>, << 3, 4, 1 >>,
             << 4, 5, 1 >>, << 0, 4, 1 >> >>,
          << << 2, 1, TRUE >>, << 3, 4, TRUE >>, << 2, 3, FALSE >> >>)

(* a ring of reflection: r1 (2) reflects to b (0) and to r2 (1), r2       *)
(* reflects to r3 (3) and r3 reflects to r1; x (4) is linked to b, b to   *)
(* r1, and r1, r2, r3 to each other                                        *)
Ring ==
    Build(<< "router", "router", "router", "router", "external" >>,
          << << 4, 0, 1 >>, << 0, 2, 1 >>, << 2, 1, 1 >>, << 1, 3, 1 >>,
             << 3, 2, 1 >> >>,
          << << 2, 0, TRUE >>, << 2, 1, TRUE >>, << 1, 3, TRUE >>,
             << 3, 2, TRUE >> >>)

(* test_bad_gadget: e_i - b_i (1), b_i - r_i (5), r_i - b_{i+1} (1); r_i is *)
(* the reflector of b_i, and r0, r1, r2 are peers of each other.  The ids  *)
(* are e0..e2 = 0..2, b0..b2 = 3..5, r0..r2 = 6..8.                        *)
BadGadget ==
    Build(<< "external", "external", "external", "router", "router", "router",
             "router", "router", "router" >>,
          << << 0, 3, 1 >>, << 1, 4, 1 >>, << 2, 5, 1 >>, << 3, 6, 5 >>,
             << 4, 7, 5 >>, << 5, 8, 5 >>, << 6, 4, 1 >>, << 7, 5, 1 >>,
             << 8, 3, 1 >> >>,
          << << 6, 3, TRUE >>, << 7, 4, TRUE >>, << 8, 5, TRUE >>,
             << 6, 7, FALSE >>, << 7, 8, FALSE >>, << 8, 6, FALSE >> >>)

(* test_pylon_gadget: s = 0, rr1 = 1, rr2 = 2, r1 = 3, r2 = 4, e0 = 5,      *)
(* e1 = 6 are internal, p0 = 7, p1 = 8, ps = 9 external                    *)
Pylon ==
    Build(<< "router", "router", "router", "router", "router", "router",
             "router", "external", "external", "external" >>,
          << << 0, 3, 100 >>, << 0, 4, 100 >>, << 0, 1, 100 >>, << 0, 2, 100 >>,
             << 1, 2, 1 >>, << 1, 5, 1 >>, << 2, 6, 1 >>, << 3, 4, 1 >>,
             << 3, 6, 1 >>, << 4, 5, 1 >>, << 5, 7, 1 >>, << 6, 8, 1 >>,
             << 0, 9, 1 >> >>,
          << << 0, 1, TRUE >>, << 0, 2, TRUE >>, << 1, 3, TRUE >>,
             << 2, 4, TRUE >>, << 3, 5, TRUE >>, << 4, 5, TRUE >>,
             << 4, 6, TRUE >> >>)

---------------------------------------------------------------------------
(* The state                                                               *)

VARIABLES
    net, routers, external_routers, queue, stop_after,  \* struct Network
    pc,              \* "idle", or "queue" while a call is inside do_queue
    remaining_iter,  \* the local variable of do_queue
    result,          \* what the last call returned, None while one runs
    dispatched,      \* events handed to a device by the current do_queue
    emitted,         \* the set of events the last step pushed to the queue
    last_msg,        \* (r, p, n) -> the last message r pushed for n and p
    decided,         \* (r, p, phase): the phase ran for p on r, and r's
                     \* sessions, policies, IGP table and rib_in[p] are as then
    quiet,           \* do_queue calls that returned Ok(true) in a row
    ops,             \* API calls made so far
    script, run, saved  \* scenario bookkeeping

vars == << net, routers, external_routers, queue, stop_after, pc,
           remaining_iter, result, dispatched, emitted, last_msg, decided,
           quiet, ops, script, run, saved >>

T == [net |-> net, routers |-> routers, external_routers |-> external_routers,
      queue |-> queue, stop_after |-> stop_after]

SetNetwork(t) ==
    /\ net' = t.net
    /\ routers' = t.routers
    /\ external_routers' = t.external_routers
    /\ queue' = t.queue
    /\ stop_after' = t.stop_after

RECURSIVE RecordMsgs(_, _, _)
(* last_msg after the events evs were pushed; only internal routers' *)
RecordMsgs(lm, evs, internal) ==
    IF evs = << >> THEN lm
    ELSE LET e == Head(evs)
         IN  RecordMsgs(IF e.from \in internal
                        THEN Put(lm, << e.from, e.msg.prefix, e.to >>,
                                 [msg |-> e.msg, live |-> TRUE])
                        ELSE lm,
                        Tail(evs), internal)

(* last_msg after r closed its session with n *)
MarkClosed(lm, r, n) ==
    [k \in DOMAIN lm |->
        IF k[1] = r /\ k[3] = n THEN [lm[k] EXCEPT !.live = FALSE] ELSE lm[k]]

(* the elements of a sequence *)
Range(q) == { q[i] : i \in 1..Len(q) }

(* decided without what it holds about router r and prefix p *)
Undecided(d, r, p) == { x \in d : ~ (x[1] = r /\ x[2] = p) }

(* decided after router r was touched: a session, a policy, the IGP table *)
Touched(d, r) == { x \in d : x[1] # r }

(* decided after r handled the event ev with result res: phase 1 fails     *)
(* before anything is changed; when phase 2 fails rib_in[p] is changed and *)
(* nothing was decided; when phase 3 fails the decision was made           *)
DecidedAfterHandle(d, r, ev, res) ==
    LET id == r.router_id
        p == ev.msg.prefix
    IN  IF ev.to # id THEN d
        ELSE IF ev.msg.type = "Update" /\ ~ get_bgp_session_type(r, ev.from).ok
        THEN d
        ELSE IF res.ok
        THEN d \cup { << id, p, "decision" >>, << id, p, "dissemination" >> }
        ELSE IF res.err[1] = "NoBgpSession"
        THEN Undecided(d, id, p) \cup { << id, p, "decision" >> }
        ELSE Undecided(d, id, p)

ResultIs(b) == IsSome(result) /\ result[1].ok /\ result[1].val = b
ResultIsErr == IsSome(result) /\ ~ result[1].ok

InitWith(t, calls, scenario) ==
    /\ net = t.net
    /\ routers = t.routers
    /\ external_routers = t.external_routers
    /\ queue = t.queue
    /\ stop_after = t.stop_after
    /\ pc = "idle"
    /\ remaining_iter = None
    /\ result = None
    /\ dispatched = 0
    /\ emitted = {}
    /\ last_msg = EmptyMap
    /\ decided = {}
    /\ quiet = 0
    /\ ops = 0
    /\ script = calls
    /\ run = scenario
    /\ saved = << >>

(* no scenario: the calls are chosen by the actions *)
NoScenario ==
    [topology |-> "", start |-> << >>, calls |-> << >>, number |-> 0,
     order |-> None]

InitOn(t) == InitWith(t, << >>, NoScenario)

---------------------------------------------------------------------------
(* Bounds of the inputs                                                    *)

MaxPrefix == 0
MaxPathLen == 2
MaxCap == 5
MaxOps == 3

Prefixes == 0..MaxPrefix
AsPaths == { [i \in 1..k |-> i] : k \in 1..MaxPathLen }
Caps == { None } \cup { Some(k) : k \in 0..MaxCap }

---------------------------------------------------------------------------
(* The calls of the Network API.  A call that ends in do_queue() enters    *)
(* the loop (pc = "queue"); DoQueueStep runs it one iteration at a time.   *)

(* run.order is None, or Some(order) in a scenario that keeps the order in *)
(* which the first push of more than one event enqueued them: the          *)
(* receivers in that order, << >> until there was such a push              *)
Ordered(rn, events) ==
    IF rn.order = Some(<< >>) /\ Len(events) > 1
    THEN [rn EXCEPT !.order = Some([i \in 1..Len(events) |-> events[i].to])]
    ELSE rn

(* what every call does to the bookkeeping, given the network it leaves,   *)
(* the events it pushed and its result                                     *)
CalledFrom(c, lm) ==
    /\ SetNetwork(c.t)
    /\ emitted' = Range(c.events)
    /\ last_msg' = RecordMsgs(lm, c.events, DOMAIN routers)
    /\ ops' = ops + 1
    /\ dispatched' = 0
    /\ IF c.res.err = << "do_queue" >>
       THEN pc' = "queue" /\ remaining_iter' = c.t.stop_after /\ result' = None
       ELSE pc' = "idle" /\ remaining_iter' = None /\ result' = Some(c.res)

Called(c) == CalledFrom(c, last_msg)

StopAfterQueue(n) ==
    /\ pc = "idle" /\ ops < MaxOps
    /\ n # stop_after
    /\ SetNetwork(stop_after_queue(T, n))
    /\ result' = None /\ emitted' = {} /\ ops' = ops + 1
    /\ UNCHANGED << pc, remaining_iter, dispatched, last_msg, decided, quiet,
                    script, run, saved >>

AdvertiseExternalRoute(source, prefix, as_path, med, update) ==
    /\ pc = "idle" /\ ops < MaxOps
    /\ \E ord \in Perms(external_routers[source].neighbors) :
          Called(advertise_external_route(T, source, prefix, as_path, med,
                                          update, ord))
    /\ quiet' = 0
    /\ UNCHANGED << decided, script, run, saved >>

RetractExternalRoute(source, prefix, update) ==
    /\ pc = "idle" /\ ops < MaxOps
    /\ \E ord \in Perms(external_routers[source].neighbors) :
          Called(retract_external_route(T, source, prefix, update, ord))
    /\ quiet' = 0
    /\ UNCHANGED << decided, script, run, saved >>

DoQueue ==
    /\ pc = "idle" /\ ops < MaxOps
    /\ Called([t |-> T, events |-> << >>, res |-> EnterQueue])
    /\ UNCHANGED << decided, quiet, script, run, saved >>

(* the iteration orders the next iteration of do_queue can meet *)
HandleOrders(t) ==
    IF t.queue # << >> /\ Has(t.routers, Head(t.queue).to)
    THEN LET r == t.routers[Head(t.queue).to]
             p == Head(t.queue).msg.prefix
         IN  [dord : Perms((IF Has(r.bgp_rib_in, p) THEN DOMAIN r.bgp_rib_in[p]
                            ELSE {}) \cup { Head(t.queue).from }),
              pord : Perms(bgp_peers(r))]
    ELSE { [dord |-> << >>, pord |-> << >>] }

DoQueueStep ==
    /\ pc = "queue"
    /\ \E o \in HandleOrders(T) :
          LET Iterated(it) ==
              /\ SetNetwork(it.t)
              /\ remaining_iter' = IF IsSome(it.ret) THEN None
                                   ELSE it.remaining_iter
              /\ pc' = IF IsSome(it.ret) THEN "idle" ELSE "queue"
              /\ result' = it.ret
              /\ dispatched' = IF IsSome(it.handled) THEN dispatched + 1
                               ELSE dispatched
              /\ emitted' = Range(it.events)
              /\ last_msg' = RecordMsgs(last_msg, it.events, DOMAIN routers)
              /\ decided' =
                    IF IsSome(it.handled) /\ Has(routers, it.handled[1].to)
                    THEN DecidedAfterHandle(decided, routers[it.handled[1].to],
                                            it.handled[1], it.res)
                    ELSE decided
              /\ quiet' = IF IsSome(it.ret) /\ it.ret[1].ok /\ it.ret[1].val
                          THEN (IF quiet = 0 THEN 1 ELSE 2)
                          ELSE 0
              /\ run' = Ordered(run, it.events)
          IN  Iterated(do_queue_iteration(T, remaining_iter, o.dord, o.pord))
    /\ UNCHANGED << ops, script, saved >>

Init == InitOn(S1)

Next ==
    \/ \E n \in Caps : StopAfterQueue(n)
    \/ \E source \in DOMAIN external_routers, prefix \in Prefixes,
          as_path \in AsPaths, update \in BOOLEAN :
          AdvertiseExternalRoute(source, prefix, as_path, None, update)
    \/ \E source \in DOMAIN external_routers, prefix \in Prefixes,
          update \in BOOLEAN :
          RetractExternalRoute(source, prefix, update)
    \/ DoQueue
    \/ DoQueueStep

Spec == Init /\ [][Next]_vars

---------------------------------------------------------------------------
(* do_queue and the iteration cap                                          *)

(* C1: when do_queue returns Ok(false) because the cap is exhausted, the   *)
(* queue and the routers are as they were before that last iteration:      *)
(* every event not yet executed is still queued, in order.                 *)
C1_QueueIntactAtCap ==
    [][(pc = "queue" /\ ResultIs(FALSE)')
          => (queue' = queue /\ routers' = routers)]_vars

(* what the code does instead: the event at the front is popped before the *)
(* cap is tested, and is gone when Ok(false) is returned                    *)
C1_FrontEventDropped ==
    [][(pc = "queue" /\ ResultIs(FALSE)')
          => (queue # << >> /\ queue' = Tail(queue) /\ routers' = routers)]_vars

(* C2: after do_queue returned Ok(true) the queue is empty, and a do_queue *)
(* that follows (nothing enqueued in between) returns Ok(true) again       *)
(* without touching the routers or the queue.                              *)
C2_DoQueueIdempotent ==
    /\ [](quiet >= 1 => queue = << >>)
    /\ [][(quiet >= 1 /\ pc = "queue")
             => (/\ ResultIs(TRUE)' /\ pc' = "idle"
                 /\ routers' = routers /\ queue' = queue
                 /\ dispatched' = 0)]_vars

(* a second do_queue in a row has returned Ok(true), here with the cap 0 *)
C2_Witness == quiet = 2 /\ pc = "idle" /\ stop_after = Some(0)

(* C3: with the cap N set, a do_queue executes at most N events (each      *)
(* iteration that does not return executes one and counts the cap down);   *)
(* it returns Ok(true) exactly when it finds the queue empty, also after   *)
(* exactly N events, and Ok(false) exactly when it finds an event pending  *)
(* after N events were executed.                                           *)
C3_CapBoundsDispatches ==
    /\ []((pc = "queue" /\ IsSome(stop_after))
             => (/\ IsSome(remaining_iter)
                 /\ remaining_iter[1] + dispatched = stop_after[1]))
    /\ [][(pc = "queue" /\ IsSome(stop_after))
             => (/\ dispatched' <= stop_after[1]
                 /\ ResultIs(TRUE)' <=> (queue = << >>)
                 /\ ResultIs(FALSE)' <=>
                       (queue # << >> /\ dispatched = stop_after[1])
                 /\ (pc' = "queue") => (dispatched' = dispatched + 1))]_vars

(* a do_queue returned Ok(true) after executing exactly N > 0 events *)
C3_Witness ==
    /\ pc = "idle" /\ ResultIs(TRUE) /\ IsSome(stop_after)
    /\ dispatched = stop_after[1] /\ dispatched > 0

---------------------------------------------------------------------------
(* One router driven directly through its public interface, as in          *)
(* test_router.rs: a router with id 0, an iBGP peer (1), an iBGP client    *)
(* (2) and an eBGP neighbour (3, the test's 100); the IGP table is written *)
(* by hand and gives the eBGP neighbour the cost 0, as the test does.      *)
(* Routes received name 3 or 5 (the test's 10, 11) as next hop.            *)
(* The events a call pushes are popped by the caller after each call, so   *)
(* the queue is empty between calls; emitted holds what was pushed.        *)

TestId == 0
Neighbours == { 1, 2, 3 }
NextHops == { 3, 5 }
SessionTypes == { "EBgp", "IBgpPeer", "IBgpClient" }

TestRouter ==
    LET a == establish_bgp_session(NewRouter(TestId), 3, "EBgp").router
        b == establish_bgp_session(a, 1, "IBgpPeer").router
        c == establish_bgp_session(b, 2, "IBgpClient").router
    IN  [c EXCEPT !.igp_forwarding_table =
            (1 :> Some(<< 1, 1 >>)) @@ (2 :> Some(<< 2, 2 >>))
            @@ (3 :> Some(<< 3, 0 >>)) @@ (5 :> Some(<< 1, 3 >>))]

MaxEvents == 2
MaxCalls == 2

IgpCosts == { 0, 3 }
LocalPrefs == { 50 }

R == routers[TestId]

InitRouter ==
    InitOn([net |-> NewGraph, routers |-> (TestId :> TestRouter),
            external_routers |-> EmptyMap, queue |-> << >>,
            stop_after |-> Some(DEFAULT_STOP_AFTER)])

(* the frame of every call on the router *)
RouterCall(r, res) ==
    /\ routers' = [routers EXCEPT ![TestId] = r]
    /\ result' = Some(res)
    /\ UNCHANGED << net, external_routers, queue, stop_after, pc,
                    remaining_iter, quiet, script, run, saved >>

REstablish(target, session_type) ==
    /\ ops < MaxCalls
    /\ LET Established(e) ==
               /\ RouterCall(e.router, e.res)
               /\ decided' = IF e.res.ok THEN Touched(decided, TestId) ELSE decided
       IN  Established(establish_bgp_session(R, target, session_type))
    /\ ops' = ops + 1 /\ emitted' = {}
    /\ UNCHANGED << dispatched, last_msg >>

RClose(target) ==
    /\ ops < MaxCalls
    /\ LET Closed(c) ==
               /\ RouterCall(c.router, c.res)
               /\ decided' = IF c.res.ok THEN Touched(decided, TestId) ELSE decided
               /\ last_msg' = IF c.res.ok THEN MarkClosed(last_msg, TestId, target)
                              ELSE last_msg
       IN  Closed(close_bgp_session(R, target))
    /\ ops' = ops + 1 /\ emitted' = {}
    /\ UNCHANGED dispatched

(* r.policy_bgp_local_pref.insert(neighbour, value) / .remove(neighbour) *)
RSetLocalPref(neighbour, value) ==
    /\ ops < MaxCalls
    /\ Get(R.policy_bgp_local_pref, neighbour) # value
    /\ RouterCall([R EXCEPT !.policy_bgp_local_pref =
                      IF IsSome(value) THEN Put(@, neighbour, value[1])
                      ELSE Del(@, neighbour)], Ok(<< >>))
    /\ decided' = Touched(decided, TestId)
    /\ ops' = ops + 1 /\ emitted' = {}
    /\ UNCHANGED << dispatched, last_msg >>

(* r.policy_bgp_route_no_export.insert((from, to)) / .remove(&(from, to)) *)
RSetNoExport(from, to) ==
    /\ ops < MaxCalls
    /\ RouterCall([R EXCEPT !.policy_bgp_route_no_export =
                      IF << from, to >> \in @ THEN @ \ { << from, to >> }
                      ELSE @ \cup { << from, to >> }], Ok(<< >>))
    /\ decided' = Touched(decided, TestId)
    /\ ops' = ops + 1 /\ emitted' = {}
    /\ UNCHANGED << dispatched, last_msg >>

(* r.igp_forwarding_table.insert(target, Some((next_hop, cost))): the cost *)
(* of the path to target changes, its first hop stays                      *)
RSetIgp(target, cost) ==
    /\ ops < MaxCalls
    /\ R.igp_forwarding_table[target][1][2] # cost
    /\ RouterCall([R EXCEPT !.igp_forwarding_table[target] =
                      Some(<< @[1][1], cost >>)], Ok(<< >>))
    /\ decided' = Touched(decided, TestId)
    /\ ops' = ops + 1 /\ emitted' = {}
    /\ UNCHANGED << dispatched, last_msg >>

RHandleEvent(from, bgp_event) ==
    /\ dispatched < MaxEvents
    /\ \E dord \in Perms((IF Has(R.bgp_rib_in, bgp_event.prefix)
                          THEN DOMAIN R.bgp_rib_in[bgp_event.prefix]
                          ELSE {}) \cup { from }),
          pord \in Perms(bgp_peers(R)) :
          LET Handled(h) ==
                  /\ RouterCall(h.router, h.res)
                  /\ emitted' = Range(h.events)
                  /\ last_msg' = RecordMsgs(last_msg, h.events, { TestId })
                  /\ decided' = DecidedAfterHandle(decided, R,
                                    EventBgp(from, TestId, bgp_event), h.res)
          IN  Handled(handle_event(R, EventBgp(from, TestId, bgp_event),
                                   dord, pord))
    /\ dispatched' = dispatched + 1
    /\ UNCHANGED ops

(* r.bgp_decision_process() *)
RDecision ==
    /\ ops < MaxCalls
    /\ \E o \in ScheduleOrders(R, {}) :
          LET Decided(d) ==
                  /\ RouterCall(d.router, d.res)
                  /\ decided' =
                        IF d.res.ok
                        THEN Touched(decided, TestId) \cup
                             { << TestId, p, "decision" >> :
                                  p \in R.bgp_known_prefixes }
                        ELSE Touched(decided, TestId)
          IN  Decided(bgp_decision_process(R, o.dprefixes, o.dords))
    /\ ops' = ops + 1 /\ emitted' = {}
    /\ UNCHANGED << dispatched, last_msg >>

(* r.bgp_route_dissemination(&mut queue) *)
RDissemination ==
    /\ ops < MaxCalls
    /\ \E o \in ScheduleOrders(R, {}) :
          LET Disseminated(x) ==
                  /\ RouterCall(x.router, x.res)
                  /\ emitted' = Range(x.events)
                  /\ last_msg' = RecordMsgs(last_msg, x.events, { TestId })
                  /\ decided' =
                        IF x.res.ok
                        THEN decided \cup
                             { << TestId, p, "dissemination" >> :
                                  p \in R.bgp_known_prefixes }
                        ELSE { d \in decided : d[3] # "dissemination" }
          IN  Disseminated(bgp_route_dissemination(R, o.pprefixes, o.pords))
    /\ ops' = ops + 1
    /\ UNCHANGED dispatched

(* the routes of the Updates: a short path, and a longer one by either    *)
(* next hop                                                                *)
ReceivedRoutes ==
    { BgpRoute(prefix, x[1], x[2], None, None) :
         prefix \in Prefixes,
         x \in { y \in AsPaths \X NextHops :
                   Len(y[1]) = MaxPathLen \/ y[2] = 5 } }

NextRouter ==
    \/ \E target \in Neighbours, session_type \in SessionTypes :
          REstablish(target, session_type)
    \/ \E target \in Neighbours : RClose(target)
    \/ \E neighbour \in Neighbours, value \in { None } \cup
                                    { Some(v) : v \in LocalPrefs } :
          RSetLocalPref(neighbour, value)
    \/ \E from \in Neighbours : \E to \in Neighbours \ { from } :
          RSetNoExport(from, to)
    \/ \E target \in NextHops, cost \in IgpCosts : RSetIgp(target, cost)
    \/ \E from \in Neighbours, route \in ReceivedRoutes :
          RHandleEvent(from, Update(route))
    \/ \E from \in Neighbours, prefix \in Prefixes :
          RHandleEvent(from, Withdraw(prefix))
    \/ RDecision
    \/ RDissemination

SpecRouter == InitRouter /\ [][NextRouter]_vars

---------------------------------------------------------------------------
(* The selected route                                                      *)

(* The attributes of a processed entry in the order the decision process   *)
(* is specified to compare them; the entry with the smaller sequence is    *)
(* preferred: higher local_pref, shorter AS path, lower MED, eBGP before   *)
(* iBGP, lower IGP cost, lower next hop, lower neighbour id.               *)
Preference(e) ==
    << 0 - UnwrapOr(e.route.local_pref, DefaultLocalPref),
       Len(e.route.as_path),
       UnwrapOr(e.route.med, DefaultMed),
       IF e.from_type = "EBgp" THEN 0 ELSE 1,
       Unwrap(e.igp_cost),
       e.route.next_hop,
       e.from_id >>

RECURSIVE LexLess(_, _)
LexLess(a, b) ==
    IF a = << >> \/ b = << >> THEN FALSE
    ELSE \/ Head(a) < Head(b)
         \/ Head(a) = Head(b) /\ LexLess(Tail(a), Tail(b))

(* rib_in[p] of router r as the decision process reads it *)
Candidates(r, p) ==
    IF Has(r.bgp_rib_in, p)
    THEN { process_bgp_rib_in_route(r, r.bgp_rib_in[p][n]) :
              n \in DOMAIN r.bgp_rib_in[p] }
    ELSE {}

Processed(r, p) == { c.val : c \in { x \in Candidates(r, p) : x.ok } }

(* e is in S and is preferred to every other entry of S *)
IsMaximum(e, S) ==
    \E c \in S :
       /\ RibEq(c, e)
       /\ \A x \in S \ {c} : LexLess(Preference(c), Preference(x))

(* e is in S and no entry of S has a higher local_pref, or the same and a  *)
(* shorter AS path, or the same and a lower MED                            *)
IsMaximumByRoute(e, S) ==
    \E c \in S :
       /\ RibEq(c, e)
       /\ \A x \in S :
             ~ LexLess(SubSeq(Preference(x), 1, 3), SubSeq(Preference(c), 1, 3))

(* no candidate learned over iBGP has the IGP cost 0 *)
NoFreeIbgp(S) == \A x \in S : x.from_type # "EBgp" => Unwrap(x.igp_cost) > 0

(* e is an entry of S and is preferred to every other entry of S *)
IsTheMaximum(e, S) ==
    /\ e \in S
    /\ \A x \in S \ {e} : LexLess(Preference(e), Preference(x))

(* C4 as stated: in every reachable state, for every router r and prefix   *)
(* p with rib[p] present, rib[p] is the maximum of the processed rib_in[p] *)
(* under the decision order.                                               *)
C4_RibIsMaximumAlways ==
    \A r \in DOMAIN routers, p \in Prefixes :
       Has(routers[r].bgp_rib, p)
          => IsMaximum(routers[r].bgp_rib[p], Processed(routers[r], p))

(* C4: for every router r and prefix p with rib[p] present, rib[p] equals  *)
(* the unique maximum of the processed rib_in[p] entries under the         *)
(* decision order; stated for the states in which the decision process    *)
(* has run for p since r was last changed by a session, a policy or an IGP *)
(* table write, the states in which the selection is not left stale        *)
C4_RibIsMaximumOnceDecided ==
    \A r \in DOMAIN routers, p \in Prefixes :
       (<< r, p, "decision" >> \in decided /\ Has(routers[r].bgp_rib, p))
          => IsTheMaximum(routers[r].bgp_rib[p], Processed(routers[r], p))

(* the decision process has just run and selected the route of the iBGP    *)
(* peer 1, whose next hop costs 0, over the route of the eBGP neighbour 3  *)
(* with the same local_pref, AS path length and MED                        *)
C4_IbgpOverEbgp ==
    /\ << TestId, 0, "decision" >> \in decided
    /\ Has(R.bgp_rib, 0) /\ R.bgp_rib[0].from_id = 1
    /\ R.bgp_rib[0].from_type = "IBgpPeer"
    /\ \E x \in Processed(R, 0) :
          /\ x.from_type = "EBgp" /\ x.from_id = 3
          /\ SubSeq(Preference(x), 1, 3) = SubSeq(Preference(R.bgp_rib[0]), 1, 3)
          /\ LexLess(Preference(x), Preference(R.bgp_rib[0]))

(* the decision process has just run and the selected entry carries an     *)
(* IGP cost that is not the one its processed rib_in entry has             *)
C4_StaleCost ==
    /\ << TestId, 0, "decision" >> \in decided
    /\ Has(R.bgp_rib, 0)
    /\ \E x \in Processed(R, 0) :
          RibEq(x, R.bgp_rib[0]) /\ x.igp_cost # R.bgp_rib[0].igp_cost

(* what the decision process does achieve once it has run: rib[p] is       *)
(* present exactly when rib_in[p] is not empty; it is then an entry of the *)
(* processed rib_in[p] (same route, same neighbour) that is maximal by     *)
(* local_pref, AS path length and MED, and it is the maximum of the whole  *)
(* decision order when no iBGP-learned candidate has IGP cost 0            *)
C4_MaximumUnlessFreeIbgp ==
    \A r \in DOMAIN routers, p \in Prefixes :
       << r, p, "decision" >> \in decided
          => LET S == Processed(routers[r], p)
                 rib == routers[r].bgp_rib
             IN  /\ \A c \in Candidates(routers[r], p) : c.ok
                 /\ Has(rib, p) <=> (S # {})
                 /\ Has(rib, p) => IsMaximumByRoute(rib[p], S)
                 /\ (Has(rib, p) /\ NoFreeIbgp(S)) => IsMaximum(rib[p], S)

---------------------------------------------------------------------------
(* Export                                                                  *)

(* the export rule as specified: not back to the neighbour the route was   *)
(* learned from, not where the policy forbids it, not from one iBGP peer   *)
(* to another                                                              *)
ExportAllowed(r, f, n) ==
    /\ n # f
    /\ << f, n >> \notin r.policy_bgp_route_no_export
    /\ ~ (f \in r.ibgp_peer_sessions /\ n \in r.ibgp_peer_sessions)

(* rib_out[p][n] of router r, as an Option *)
RibOut(r, p, n) ==
    IF Has(r.bgp_rib_out, p) THEN Get(r.bgp_rib_out[p], n) ELSE None

(* C7: every Update a router emits to a peer n for its selected route,     *)
(* learned from f, passes the export rule; and when dissemination has run  *)
(* for p, every peer n the rule allows holds the selected route in         *)
(* rib_out[p][n], whatever the session types of f and n are otherwise.     *)
C7_ExportFilter ==
    /\ \A e \in emitted :
          (e.msg.type = "Update" /\ Has(routers, e.from))
             => LET r == routers[e.from]
                IN  /\ Has(r.bgp_rib, e.msg.prefix)
                    /\ ExportAllowed(r, r.bgp_rib[e.msg.prefix].from_id, e.to)
    /\ \A r \in DOMAIN routers, p \in Prefixes :
          (<< r, p, "dissemination" >> \in decided /\ Has(routers[r].bgp_rib, p))
             => \A n \in bgp_peers(routers[r]) :
                   ExportAllowed(routers[r], routers[r].bgp_rib[p].from_id, n)
                      => /\ IsSome(RibOut(routers[r], p, n))
                         /\ RibOut(routers[r], p, n)[1].from_id =
                               routers[r].bgp_rib[p].from_id
                         /\ RibOut(routers[r], p, n)[1].route.as_path =
                               routers[r].bgp_rib[p].route.as_path

(* a route learned from an iBGP peer is sent to the client and to the eBGP *)
(* neighbour, and not to the second iBGP peer                              *)
C7_Witness ==
    /\ Has(R.bgp_rib, 0)
    /\ R.bgp_rib[0].from_id \in R.ibgp_peer_sessions
    /\ \E n \in R.ibgp_peer_sessions : n # R.bgp_rib[0].from_id
    /\ \E e \in emitted : e.msg.type = "Update" /\ e.to \in R.ibgp_client_sessions
    /\ \A e \in emitted : e.to \notin R.ibgp_peer_sessions

---------------------------------------------------------------------------
(* rib_out and the messages sent                                           *)

(* the neighbours r has a rib_out entry or a recorded message for *)
Addressees(r, p) ==
    (IF Has(routers[r].bgp_rib_out, p) THEN DOMAIN routers[r].bgp_rib_out[p]
     ELSE {})
    \cup { k[3] : k \in { x \in DOMAIN last_msg : x[1] = r /\ x[2] = p } }

(* rib_out[p][n] of r is what the message m says: the route of an Update,  *)
(* nothing after a Withdraw                                                *)
Reflects(r, p, n, m) ==
    IF m.type = "Update"
    THEN /\ IsSome(RibOut(routers[r], p, n))
         /\ RibOut(routers[r], p, n)[1].route = m.route[1]
    ELSE IsNone(RibOut(routers[r], p, n))

(* C8 as stated: in every reachable state rib_out[p][n] reflects the last  *)
(* message r emitted to n for p, and is absent when there was none.        *)
C8_RibOutIsLastMessage ==
    \A r \in DOMAIN routers, p \in Prefixes :
       \A n \in Addressees(r, p) :
          IF Has(last_msg, << r, p, n >>)
          THEN Reflects(r, p, n, last_msg[<< r, p, n >>].msg)
          ELSE IsNone(RibOut(routers[r], p, n))

(* C8: rib_out[p][n] reflects the last message r emitted to n for p since  *)
(* r's session with n was last closed; it is absent when r has emitted     *)
(* none since then (close_session purges it without a message).            *)
C8_RibOutIsLastMessageOfSession ==
    \A r \in DOMAIN routers, p \in Prefixes :
       \A n \in Addressees(r, p) :
          IF Has(last_msg, << r, p, n >>) /\ last_msg[<< r, p, n >>].live
          THEN Reflects(r, p, n, last_msg[<< r, p, n >>].msg)
          ELSE IsNone(RibOut(routers[r], p, n))

(* the last message to one neighbour was an Update and its session was     *)
(* closed since; another neighbour's last message is an Update still held  *)
C8_Witness ==
    /\ \E k \in DOMAIN last_msg :
          ~ last_msg[k].live /\ last_msg[k].msg.type = "Update"
    /\ \E k \in DOMAIN last_msg :
          /\ last_msg[k].live /\ last_msg[k].msg.type = "Update"
          /\ IsSome(RibOut(routers[k[1]], k[2], k[3]))

---------------------------------------------------------------------------
(* Scenarios: a fixed sequence of Network API calls on one of the          *)
(* topologies, as the tests of test_network.rs make them.  script holds    *)
(* the calls still to make; run names the topology, the calls each run of  *)
(* the scenario makes, and the run that is under way; saved holds the      *)
(* snapshots taken on the way.  A call is made once the call before it     *)
(* returned Ok(true), as the tests assert it.                              *)

ScenarioCap == 20

Topology(name) ==
    CASE name = "S1" -> S1
      [] name = "S2" -> S2
      [] name = "S3" -> S3
      [] name = "S4" -> S4

(* the network a run starts from *)
Start(name) == stop_after_queue(Topology(name), Some(ScenarioCap))

Call(op, source, target, as_path, route_reflector, update) ==
    [op |-> op, source |-> source, target |-> target, prefix |-> 0,
     as_path |-> as_path, route_reflector |-> route_reflector,
     update |-> update]

Advertise(source, as_path, update) ==
    Call("advertise", source, source, as_path, FALSE, update)
Retract(source, update) == Call("retract", source, source, << >>, FALSE, update)
RemoveSession(source, target, update) ==
    Call("remove", source, target, << >>, FALSE, update)
AddSession(source, target, route_reflector, update) ==
    Call("add", source, target, << >>, route_reflector, update)
Schedule(router) == Call("schedule", router, router, << >>, FALSE, FALSE)
Queue == Call("do_queue", 0, 0, << >>, FALSE, TRUE)
Save == Call("save", 0, 0, << >>, FALSE, FALSE)
Restart == Call("restart", 0, 0, << >>, FALSE, FALSE)

(* the iBGP sessions of a network, as arguments of add_ibgp_session *)
IbgpSessions(t) ==
    UNION { { << a, b, TRUE >> : b \in t.routers[a].ibgp_client_sessions } :
            a \in DOMAIN t.routers }
    \cup { s \in (DOMAIN t.routers) \X (DOMAIN t.routers) \X { FALSE } :
             /\ s[1] < s[2]
             /\ s[2] \in t.routers[s[1]].ibgp_peer_sessions
             /\ s[1] \in t.routers[s[2]].ibgp_peer_sessions }

(* the entries of a rib_in or rib_out table *)
Entries(table) ==
    UNION { { << p, n, table[p][n] >> : n \in DOMAIN table[p] } :
            p \in DOMAIN table }

(* the fields bgp_rib_in, bgp_rib and bgp_rib_out of every router, as they  *)
(* are stored: the rib_in entries are the received ones, not the entries  *)
(* get_known_bgp_routes returns after processing them                     *)
Ribs(rs) ==
    [r \in DOMAIN rs |->
        [rib_in |-> Entries(rs[r].bgp_rib_in),
         rib |-> { << p, rs[r].bgp_rib[p] >> : p \in DOMAIN rs[r].bgp_rib },
         rib_out |-> Entries(rs[r].bgp_rib_out)]]

(* get_route of every router for the prefix of the scenarios *)
Routes(t) == [r \in DOMAIN t.routers |-> get_route(t, r, 0)]

Ready(op) ==
    /\ pc = "idle"
    /\ script # << >>
    /\ Head(script).op = op
    /\ IsNone(result) \/ ResultIs(TRUE)

(* the last call of the run under way returned Ok(true) *)
RunDone ==
    /\ pc = "idle"
    /\ ResultIs(TRUE)
    /\ script = << >> \/ Head(script).op = "save"

(* the last call of the scenario returned Ok(true) *)
Finished == RunDone /\ script = << >>

ScriptAdvertise ==
    /\ Ready("advertise")
    /\ LET c == Head(script)
       IN  \E ord \in Perms(external_routers[c.source].neighbors) :
              LET called(x) == Called(x) /\ run' = Ordered(run, x.events)
              IN  called(advertise_external_route(T, c.source, c.prefix,
                                                  c.as_path, None, c.update, ord))
    /\ quiet' = 0
    /\ script' = Tail(script)
    /\ UNCHANGED << decided, saved >>

ScriptRetract ==
    /\ Ready("retract")
    /\ LET c == Head(script)
       IN  \E ord \in Perms(external_routers[c.source].neighbors) :
              LET called(x) == Called(x) /\ run' = Ordered(run, x.events)
              IN  called(retract_external_route(T, c.source, c.prefix, c.update,
                                                ord))
    /\ quiet' = 0
    /\ script' = Tail(script)
    /\ UNCHANGED << decided, saved >>

(* decided after add_ibgp_session / remove_ibgp_session returned c: both   *)
(* ends were touched, and both phases ran on them when the update was made *)
DecidedAfterSession(d, c, source, target) ==
    Touched(Touched(d, source), target)
    \cup (IF c.res.err = << "do_queue" >>
          THEN UNION { { << r, p, phase >> :
                            p \in c.t.routers[r].bgp_known_prefixes,
                            phase \in { "decision", "dissemination" } } :
                       r \in { source, target } }
          ELSE {})

SessionOrders(id, new_peers, update) ==
    IF update THEN ScheduleOrders(routers[id], new_peers) ELSE { NoOrders }

ScriptRemoveSession ==
    /\ Ready("remove")
    /\ LET c == Head(script)
           removed(x) ==
               /\ CalledFrom(x, MarkClosed(MarkClosed(last_msg, c.source, c.target),
                                           c.target, c.source))
               /\ decided' = DecidedAfterSession(decided, x, c.source, c.target)
       IN  \E os \in SessionOrders(c.source, {}, c.update),
              ot \in SessionOrders(c.target, {}, c.update) :
              removed(remove_ibgp_session(T, c.source, c.target, c.update, os, ot))
    /\ quiet' = 0
    /\ script' = Tail(script)
    /\ UNCHANGED << run, saved >>

ScriptAddSession ==
    /\ Ready("add")
    /\ LET c == Head(script)
           added(x) ==
               /\ Called(x)
               /\ decided' = DecidedAfterSession(decided, x, c.source, c.target)
       IN  \E os \in SessionOrders(c.source, { c.target }, c.update),
              ot \in SessionOrders(c.target, { c.source }, c.update) :
              added(add_ibgp_session(T, c.source, c.target, c.route_reflector,
                                     c.update, os, ot))
    /\ quiet' = 0
    /\ script' = Tail(script)
    /\ UNCHANGED << run, saved >>

(* schedule_update_router(router).unwrap(): Ok(()) leaves no value, result *)
(* holds the error otherwise                                               *)
ScriptSchedule ==
    /\ Ready("schedule")
    /\ LET c == Head(script)
           scheduled(x) ==
               /\ SetNetwork(x.t)
               /\ emitted' = Range(x.events)
               /\ last_msg' = RecordMsgs(last_msg, x.events, DOMAIN routers)
               /\ ops' = ops + 1
               /\ dispatched' = 0
               /\ pc' = "idle" /\ remaining_iter' = None
               /\ result' = IF x.res.ok THEN None ELSE Some(x.res)
               /\ decided' =
                     IF x.res.ok
                     THEN Touched(decided, c.source) \cup
                          { << c.source, p, phase >> :
                               p \in routers[c.source].bgp_known_prefixes,
                               phase \in { "decision", "dissemination" } }
                     ELSE Touched(decided, c.source)
       IN  \E o \in ScheduleOrders(routers[c.source], {}) :
              scheduled(schedule_update_router(T, c.source, o))
    /\ quiet' = 0
    /\ script' = Tail(script)
    /\ UNCHANGED << run, saved >>

ScriptDoQueue ==
    /\ Ready("do_queue")
    /\ Called([t |-> T, events |-> << >>, res |-> EnterQueue])
    /\ script' = Tail(script)
    /\ UNCHANGED << decided, quiet, run, saved >>

(* keep the stored tables of every router and the forwarding paths the    *)
(* network has now, and the order kept of the run                          *)
ScriptSave ==
    /\ Ready("save")
    /\ saved' = Append(saved, [ribs |-> Ribs(routers), routes |-> Routes(T),
                                order |-> run.order])
    /\ script' = Tail(script)
    /\ UNCHANGED << net, routers, external_routers, queue, stop_after, pc,
                    remaining_iter, result, dispatched, emitted, last_msg,
                    decided, quiet, ops, run >>

(* build the topology anew for the next run *)
ScriptRestart ==
    /\ Ready("restart")
    /\ SetNetwork(run.start)
    /\ pc' = "idle" /\ remaining_iter' = None /\ result' = None
    /\ dispatched' = 0 /\ emitted' = {} /\ last_msg' = EmptyMap
    /\ decided' = {} /\ quiet' = 0 /\ ops' = 0
    /\ script' = Tail(script)
    /\ run' = [run EXCEPT !.number = @ + 1, !.order = Some(<< >>)]
    /\ UNCHANGED saved

(* a scenario of one run from the network start, which is Start(name) *)
InitScenario(name, start, calls) ==
    InitWith(start, calls,
             [topology |-> name, start |-> start, calls |-> << calls >>,
              number |-> 1, order |-> None])

(* a scenario of two runs from the same network, the order of the first   *)
(* push of several events kept of each run                                 *)
InitTwoRuns(name, start, first, second) ==
    InitWith(start, first \o << Save, Restart >> \o second,
             [topology |-> name, start |-> start, calls |-> << first, second >>,
              number |-> 1, order |-> Some(<< >>)])

Topologies == { "S1", "S2", "S3" }
Externals(t) == DOMAIN t.external_routers

---------------------------------------------------------------------------
(* The same stimulus twice: every interleaving of the second run is        *)
(* compared with every interleaving of the first                           *)

Batch(a, b, pa, pb) ==
    << Advertise(a, pa, FALSE), Advertise(b, pb, FALSE), Queue >>
Sequential(a, b, pa, pb) ==
    << Advertise(a, pa, TRUE), Advertise(b, pb, TRUE) >>

Stimuli(t) ==
    UNION { { Batch(x[1], x[2], x[3], x[4]), Sequential(x[1], x[2], x[3], x[4]) } :
            x \in { y \in Externals(t) \X Externals(t) \X AsPaths \X AsPaths :
                      y[1] # y[2] } }

InitFifo ==
    \E name \in Topologies \cup { "S4" } :
       LET from(start) ==
               \E calls \in Stimuli(start) : InitTwoRuns(name, start, calls, calls)
       IN  from(Start(name))

NextFifo ==
    \/ ScriptAdvertise
    \/ ScriptDoQueue
    \/ ScriptSave
    \/ ScriptRestart
    \/ DoQueueStep

SpecFifo == InitFifo /\ [][NextFifo]_vars

(* C5: when both runs of a stimulus drained the queue, the second run      *)
(* ends with the rib_in, rib and rib_out the first run ended with,         *)
(* whatever the orders in which the events entered the queue               *)
C5_SameFinalRibs ==
    Finished /\ run.number = 2 => Ribs(routers) = saved[1].ribs

(* two runs in which a device enqueued its events in different orders and *)
(* which ended with the same RIBs                                          *)
C5_Witness ==
    /\ Finished /\ run.number = 2
    /\ run.order # saved[1].order
    /\ Ribs(routers) = saved[1].ribs
    /\ \A r \in DOMAIN routers : Ribs(routers)[r].rib # {}

---------------------------------------------------------------------------
(* test_route_order1 / test_route_order2: the two advertisements on S2 in  *)
(* either order, each followed by convergence                              *)

InOrder(a, b, path) == << Advertise(a, path, TRUE), Advertise(b, path, TRUE) >>

InitOrder ==
    LET from(start) ==
            \E path \in AsPaths : \E a \in Externals(start), c \in Externals(start) :
               \E b \in Externals(start) \ { a }, d \in Externals(start) \ { c } :
                  InitTwoRuns("S2", start, InOrder(a, b, path), InOrder(c, d, path))
    IN  from(stop_after_queue(S2, Some(ScenarioCap)))

NextOrder ==
    \/ ScriptAdvertise
    \/ ScriptSave
    \/ ScriptRestart
    \/ DoQueueStep

SpecOrder == InitOrder /\ [][NextOrder]_vars

(* the external router the run under way, or run k, advertises from first *)
FirstAdvertiser(k) == run.calls[k][1].source

(* C6 as stated: with the two advertisements made in the other order,      *)
(* every router has the selected route and the forwarding path it had      *)
C6_OrderIndependent ==
    Finished /\ run.number = 2 /\ FirstAdvertiser(1) # FirstAdvertiser(2)
    => /\ \A r \in DOMAIN routers : Ribs(routers)[r].rib = saved[1].ribs[r].rib
       /\ Routes(T) = saved[1].routes

(* the forwarding paths of S2 when the exit behind b0 (x = 0) or behind b1 *)
(* (x = 5) was advertised first                                            *)
PathsTowards(x) ==
    IF x = 0
    THEN (1 :> Ok(<< 1, 0 >>) @@ 2 :> Ok(<< 2, 3, 1, 0 >>)
          @@ 3 :> Ok(<< 3, 1, 0 >>) @@ 4 :> Ok(<< 4, 5 >>))
    ELSE (1 :> Ok(<< 1, 0 >>) @@ 2 :> Ok(<< 2, 4, 5 >>)
          @@ 3 :> Ok(<< 3, 2, 4, 5 >>) @@ 4 :> Ok(<< 4, 5 >>))

(* C6: in both orders b0 forwards to e0 and b1 to e1, and r0 and r1        *)
(* forward to the exit that was advertised first                           *)
C6_FirstAdvertisedExitWins ==
    RunDone => Routes(T) = PathsTowards(FirstAdvertiser(run.number))

C6_Witness ==
    /\ Finished /\ run.number = 2
    /\ FirstAdvertiser(1) = 0 /\ FirstAdvertiser(2) = 5
    /\ saved[1].routes[2] = Ok(<< 2, 3, 1, 0 >>)
    /\ Routes(T)[2] = Ok(<< 2, 4, 5 >>)

---------------------------------------------------------------------------
(* Advertise and withdraw again: from a converged network in which the     *)
(* other external router advertises the prefix or not                      *)

RoundTrip(x, path) == << Save, Advertise(x, path, TRUE), Retract(x, TRUE) >>

RoundTrips(t) ==
    UNION { { RoundTrip(x, path) : path \in AsPaths }
            \cup { << Advertise(y, other, TRUE) >> \o RoundTrip(x, path) :
                     y \in Externals(t) \ { x },
                     other \in AsPaths, path \in AsPaths } :
            x \in Externals(t) }

(* the network a round trip starts from *)
RoundTripStart(name) ==
    IF name = "Ring" THEN stop_after_queue(Ring, Some(ScenarioCap))
    ELSE Start(name)

InitRoundTrip ==
    \E name \in Topologies \cup { "S4", "Ring" } :
       LET from(start) ==
               \E calls \in RoundTrips(start) : InitScenario(name, start, calls)
       IN  from(RoundTripStart(name))

NextRoundTrip ==
    \/ ScriptAdvertise
    \/ ScriptRetract
    \/ ScriptSave
    \/ DoQueueStep

SpecRoundTrip == InitRoundTrip /\ [][NextRoundTrip]_vars

(* the external router of the round trip *)
Withdrawn == run.calls[1][Len(run.calls[1])].source

(* C9 as stated: after the advertisement and the withdrawal, each with     *)
(* convergence, every router has the rib_in, rib and rib_out entries it    *)
(* had before the advertisement                                            *)
C9_RoundTripRestores ==
    Finished => Ribs(routers) = saved[1].ribs

(* the routers that are clients of S, of the clients of S, and so on for  *)
(* k more sessions                                                         *)
RECURSIVE Below(_, _, _)
Below(rs, S, k) ==
    IF k = 0 THEN S
    ELSE Below(rs, S \cup UNION { rs[r].ibgp_client_sessions \cap DOMAIN rs :
                                    r \in S }, k - 1)

(* no router is, over a chain of route reflector sessions, a client of     *)
(* itself                                                                  *)
NoReflectionCycle(rs) ==
    \A r \in DOMAIN rs :
       r \notin Below(rs, rs[r].ibgp_client_sessions \cap DOMAIN rs,
                      Cardinality(DOMAIN rs))

(* the snapshot holds no rib_in, rib or rib_out entry *)
NoRoutes(ribs) ==
    \A r \in DOMAIN ribs :
       ribs[r].rib_in = {} /\ ribs[r].rib = {} /\ ribs[r].rib_out = {}

(* C9: after the advertisement and the withdrawal, each with convergence,  *)
(* no router holds a rib_in entry received from the withdrawn advertiser;  *)
(* and when no router held a route for the prefix before the advertisement *)
(* and the route reflector sessions form no cycle, every router has the    *)
(* rib_in, rib and rib_out entries it had before                           *)
C9_RoundTripRestoresWithoutCycle ==
    Finished =>
      /\ \A r \in DOMAIN routers :
            \A e \in Ribs(routers)[r].rib_in : e[2] # Withdrawn
      /\ (NoRoutes(saved[1].ribs) /\ NoReflectionCycle(routers))
            => Ribs(routers) = saved[1].ribs

(* a round trip on S3, the only advertisement the one of e1: every router  *)
(* came to know the prefix, and the tables are empty again                 *)
C9_Witness ==
    /\ Finished /\ run.topology = "S3" /\ Len(run.calls[1]) = 3
    /\ Withdrawn = 1
    /\ NoReflectionCycle(routers) /\ NoRoutes(saved[1].ribs)
    /\ \A r \in DOMAIN routers : 0 \in routers[r].bgp_known_prefixes
    /\ Ribs(routers) = saved[1].ribs

(* the round trip on the ring has converged twice and the route lives on:  *)
(* every router selects and holds a route with the withdrawn advertiser as *)
(* next hop, b the one it gave to r1 itself                                *)
C9_Ghost ==
    /\ Finished /\ run.topology = "Ring"
    /\ ~ NoReflectionCycle(routers) /\ NoRoutes(saved[1].ribs)
    /\ \A r \in DOMAIN routers :
          /\ \E e \in Ribs(routers)[r].rib : e[2].route.next_hop = Withdrawn
          /\ \A e \in Ribs(routers)[r].rib_in : e[2] # Withdrawn
    /\ \E e \in Ribs(routers)[0].rib : e[2].from_id = 2

(* the round trip on S3 after the other external router advertised: no     *)
(* reflection cycle, and the network settles in another state than before  *)
C9_OtherStableState ==
    /\ Finished /\ run.topology = "S3" /\ Len(run.calls[1]) = 4
    /\ NoReflectionCycle(routers)
    /\ Ribs(routers) # saved[1].ribs

(* with a route of the other external router in place, the round trip     *)
(* restores rib_in, rib and rib_out on S1 and on S2                        *)
C9_RestoredOnChains ==
    (Finished /\ run.topology \in { "S1", "S2" })
       => Ribs(routers) = saved[1].ribs

---------------------------------------------------------------------------
(* Close an iBGP session and establish it again with the same types, the   *)
(* update scheduled by the second call only                                *)

Reconnect(s) ==
    << Save, RemoveSession(s[1], s[2], FALSE), AddSession(s[1], s[2], s[3], TRUE) >>

Setups(t) ==
    { << Advertise(x, path, TRUE) >> : x \in Externals(t), path \in AsPaths }
    \cup { InOrder(x[1], x[2], x[3]) :
             x \in { y \in Externals(t) \X Externals(t) \X AsPaths :
                       y[1] # y[2] } }

InitSession ==
    \E name \in Topologies :
       LET from(start) ==
               \E setup \in Setups(start), s \in IbgpSessions(start) :
                  InitScenario(name, start, setup \o Reconnect(s))
       IN  from(Start(name))

NextSession ==
    \/ ScriptAdvertise
    \/ ScriptRemoveSession
    \/ ScriptAddSession
    \/ ScriptSave
    \/ DoQueueStep

SpecSession == InitSession /\ [][NextSession]_vars

(* C10: after the session was closed and established again and the queue   *)
(* drained, every router has the rib_in, rib and rib_out entries it had    *)
(* before the session was closed                                           *)
C10_ReconnectRestores ==
    Finished => Ribs(routers) = saved[1].ribs

(* the remove_ibgp_session call of the scenario *)
Closed == run.calls[1][Len(run.calls[1]) - 1]

(* a session whose route the source had selected, closed and established   *)
(* again                                                                   *)
C10_Witness ==
    /\ Finished
    /\ \E e \in saved[1].ribs[Closed.source].rib : e[2].from_id = Closed.target
    /\ Ribs(routers) = saved[1].ribs

---------------------------------------------------------------------------
(* test_bad_gadget: the three advertisements, each followed by do_queue    *)

BadGadgetCap == 1000

BadGadgetCalls ==
    << Advertise(2, << 0, 1 >>, TRUE), Advertise(1, << 0, 1 >>, TRUE),
       Advertise(0, << 0, 1 >>, TRUE) >>

InitBadGadget ==
    LET from(start) == InitScenario("BadGadget", start, BadGadgetCalls)
    IN  from(stop_after_queue(BadGadget, Some(BadGadgetCap)))

NextBadGadget ==
    \/ ScriptAdvertise
    \/ DoQueueStep

SpecBadGadget == InitBadGadget /\ [][NextBadGadget]_vars

(* C11: the advertisements of e2 and of e1 return Ok(true); during the     *)
(* do_queue of the advertisement of e0 the queue is never found empty, and *)
(* the call returns Ok(false) when the cap is used up                      *)
C11_BadGadget ==
    /\ (pc = "idle" /\ IsSome(result))
          => IF script = << >> THEN ResultIs(FALSE) ELSE ResultIs(TRUE)
    /\ (pc = "queue" /\ script = << >>) => queue # << >>

(* the third call has returned Ok(false) after as many events as the cap   *)
C11_Witness ==
    /\ pc = "idle" /\ script = << >> /\ ResultIs(FALSE)
    /\ dispatched = BadGadgetCap

---------------------------------------------------------------------------
(* Errors of the handlers inside do_queue.  An Update is in flight over an *)
(* iBGP session when the session is closed; or the routers have no IGP     *)
(* entry for the next hop of a route (tables not written, or the next hop  *)
(* on another island).                                                     *)

(* the session s is set up late, its ends are scheduled and it is closed   *)
(* again before the queue is run; y advertises behind the events in flight *)
ClosedInFlight(s, x, y, path) ==
    << RemoveSession(s[1], s[2], FALSE), Advertise(x, path, TRUE),
       AddSession(s[1], s[2], s[3], FALSE), Schedule(s[1]), Schedule(s[2]),
       RemoveSession(s[1], s[2], FALSE), Advertise(y, path, FALSE), Queue >>

ErrorStart(name) ==
    CASE name = "S1Split" -> stop_after_queue(S1Split, Some(ScenarioCap))
      [] name = "S1Unwritten" -> Unwritten(Start("S1"))
      [] name = "S3Unwritten" -> Unwritten(Start("S3"))
      [] OTHER -> Start(name)

ErrorScripts(name, t) ==
    (IF name \in Topologies \cup { "S1Split" }
     THEN { ClosedInFlight(s, x[1], x[2], x[3]) :
               s \in IbgpSessions(t),
               x \in Externals(t) \X Externals(t) \X AsPaths }
     ELSE {})
    \cup
    (IF name \notin Topologies
     THEN { Batch(x[1], x[2], x[3], x[4]) :
               x \in { y \in Externals(t) \X Externals(t) \X AsPaths \X AsPaths :
                         y[1] # y[2] } }
     ELSE {})

InitErrors ==
    \E name \in Topologies \cup { "S1Split", "S1Unwritten", "S3Unwritten" } :
       LET from(start) ==
               \E calls \in ErrorScripts(name, start) :
                  InitScenario(name, start, calls)
       IN  from(ErrorStart(name))

NextErrors ==
    \/ ScriptAdvertise
    \/ ScriptRemoveSession
    \/ ScriptAddSession
    \/ ScriptSchedule
    \/ ScriptDoQueue
    \/ DoQueueStep

SpecErrors == InitErrors /\ [][NextErrors]_vars

(* the results handle_event can return for the event at the front of the   *)
(* queue, over the iteration orders                                        *)
HandlerResults ==
    { handle_event(routers[Head(queue).to], Head(queue), o.dord, o.pord).res :
         o \in HandleOrders(T) }

(* the iteration of do_queue that is due executes an event on a router *)
Executes ==
    /\ pc = "queue" /\ queue # << >> /\ ~ cap_reached(remaining_iter)
    /\ Has(routers, Head(queue).to)
    /\ print_event(T, Head(queue)).ok

(* C12: an event whose handler returns NoBgpSession is skipped, the router *)
(* and the rest of the queue are left as they are and the loop goes on; on *)
(* any other error do_queue returns that error at once, with the events    *)
(* behind the failed one still queued; and do_queue returns no error but   *)
(* these                                                                   *)
C12_ErrorPolicy ==
    [][Executes =>
         /\ (\E res \in HandlerResults : ~ res.ok /\ res.err[1] = "NoBgpSession")
               => /\ pc' = "queue" /\ result' = None
                  /\ queue' = Tail(queue) /\ routers' = routers
                  /\ dispatched' = dispatched + 1
         /\ (\A res \in HandlerResults : ~ res.ok /\ res.err[1] # "NoBgpSession")
               => /\ pc' = "idle" /\ result' \in { Some(res) : res \in HandlerResults }
                  /\ queue' = Tail(queue)
         /\ ResultIsErr'
               => /\ result'[1] \in HandlerResults
                  /\ result'[1].err[1] # "NoBgpSession"
                  /\ pc' = "idle" /\ queue' = Tail(queue)]_vars

(* router r was sent an Update by n over a session that was closed before *)
(* the Update was executed, and holds nothing from n                       *)
SkippedAt(r, n) ==
    /\ Has(last_msg, << n, 0, r >>)
    /\ last_msg[<< n, 0, r >>].msg.type = "Update"
    /\ ~ last_msg[<< n, 0, r >>].live
    /\ n \notin bgp_peers(routers[r])
    /\ \A e \in Entries(routers[r].bgp_rib_in) : e[2] # n

(* one do_queue skipped an Update that arrived over a closed session, went *)
(* on with the events behind it, and returned the error of a later handler *)
C12_Witness ==
    /\ pc = "idle" /\ ResultIsErr /\ script = << >>
    /\ result[1].err[1] = "RouterNotReachable"
    /\ dispatched > 2
    /\ queue = << >>
    /\ \E r \in DOMAIN routers, n \in DOMAIN routers : SkippedAt(r, n)

(* do_queue returned the error of a handler and left events in the queue *)
C12_ReturnedEarly ==
    /\ pc = "idle" /\ ResultIsErr /\ queue # << >>
    /\ result[1].err[1] \in { "RouterNotFound", "RouterNotReachable" }

(* the Update was skipped and the queue drained *)
C12_SkippedThenDrained ==
    /\ Finished /\ dispatched > 2
    /\ \E r \in DOMAIN routers, n \in DOMAIN routers :
          /\ SkippedAt(r, n)
          /\ Has(routers[r].bgp_rib, 0)
          /\ routers[r].bgp_rib[0].from_id # n

---------------------------------------------------------------------------
(* The session sets of a router                                            *)

(* the session set of router r that holds the sessions of a type *)
SessionSet(r, session_type) ==
    CASE session_type = "EBgp" -> r.ebgp_sessions
      [] session_type = "IBgpPeer" -> r.ibgp_peer_sessions
      [] session_type = "IBgpClient" -> r.ibgp_client_sessions

Disjoint(r) ==
    /\ r.ebgp_sessions \cap r.ibgp_peer_sessions = {}
    /\ r.ebgp_sessions \cap r.ibgp_client_sessions = {}
    /\ r.ibgp_peer_sessions \cap r.ibgp_client_sessions = {}

(* C13: the three session sets of a router are pairwise disjoint in every  *)
(* state; establish_session(peer, type) returns SessionAlreadyExists and   *)
(* leaves the router as it is when peer is in one of the sets, and         *)
(* otherwise adds peer to the set of the type, to no other set, and        *)
(* changes nothing else of the router                                      *)
C13_SessionSetsDisjoint ==
    /\ [](\A r \in DOMAIN routers : Disjoint(routers[r]))
    /\ [][\A target \in Neighbours, session_type \in SessionTypes :
            REstablish(target, session_type) =>
               IF target \in bgp_peers(R)
               THEN /\ result' = Some(Err("SessionAlreadyExists", target))
                    /\ R' = R
               ELSE /\ result' = Some(Ok(<< >>))
                    /\ \A st \in SessionTypes :
                          SessionSet(R', st) =
                             IF st = session_type
                             THEN SessionSet(R, st) \cup { target }
                             ELSE SessionSet(R, st)
                    /\ [R' EXCEPT !.ebgp_sessions = {}, !.ibgp_peer_sessions = {},
                                  !.ibgp_client_sessions = {}]
                       = [R EXCEPT !.ebgp_sessions = {}, !.ibgp_peer_sessions = {},
                                   !.ibgp_client_sessions = {}]]_vars

(* the session with the iBGP peer was closed and established again as a    *)
(* client session                                                          *)
C13_Witness ==
    /\ ops = 2 /\ result = Some(Ok(<< >>))
    /\ 1 \in R.ibgp_client_sessions
    /\ 2 \in R.ibgp_client_sessions
    /\ R.ibgp_peer_sessions = {}
    /\ R.ebgp_sessions = { 3 }

(* C14: close_session(peer) returns NoBgpSession and leaves the router as  *)
(* it is when peer is in no session set; otherwise it removes peer from    *)
(* its set and the entries of peer from rib_in[p] and rib_out[p] of every  *)
(* known prefix p, and leaves the other sessions, the entries of the other *)
(* neighbours, rib, the known prefixes, the policies and the queue as they *)
(* are: no decision is run and no event is pushed                          *)
C14_CloseSession ==
    [][\A target \in Neighbours :
          RClose(target) =>
             IF target \notin bgp_peers(R)
             THEN /\ result' = Some(Err("NoBgpSession", target))
                  /\ R' = R /\ queue' = queue /\ emitted' = {}
             ELSE /\ result' = Some(Ok(<< >>))
                  /\ \A st \in SessionTypes :
                        SessionSet(R', st) = SessionSet(R, st) \ { target }
                  /\ DOMAIN R'.bgp_rib_in = DOMAIN R.bgp_rib_in
                  /\ DOMAIN R'.bgp_rib_out = DOMAIN R.bgp_rib_out
                  /\ \A p \in DOMAIN R.bgp_rib_in :
                        R'.bgp_rib_in[p] =
                           IF p \in R.bgp_known_prefixes
                           THEN Del(R.bgp_rib_in[p], target) ELSE R.bgp_rib_in[p]
                  /\ \A p \in DOMAIN R.bgp_rib_out :
                        R'.bgp_rib_out[p] =
                           IF p \in R.bgp_known_prefixes
                           THEN Del(R.bgp_rib_out[p], target) ELSE R.bgp_rib_out[p]
                  /\ \A p \in R.bgp_known_prefixes :
                        /\ IsNone(RibOut(R', p, target))
                        /\ Has(R'.bgp_rib_in, p) => ~ Has(R'.bgp_rib_in[p], target)
                  /\ R'.bgp_rib = R.bgp_rib
                  /\ R'.bgp_known_prefixes = R.bgp_known_prefixes
                  /\ R'.policy_bgp_local_pref = R.policy_bgp_local_pref
                  /\ R'.policy_bgp_route_no_export = R.policy_bgp_route_no_export
                  /\ R'.igp_forwarding_table = R.igp_forwarding_table
                  /\ queue' = queue /\ emitted' = {}]_vars

(* the session to the neighbour the selected route was learned from was    *)
(* closed: its rib_in entry is gone, the route is still selected and       *)
(* another neighbour still holds it in rib_out                             *)
C14_Witness ==
    /\ result = Some(Ok(<< >>)) /\ ops = 1 /\ dispatched = 1
    /\ Has(R.bgp_rib, 0)
    /\ R.bgp_rib[0].from_id \notin bgp_peers(R)
    /\ \A e \in Entries(R.bgp_rib_in) : e[2] # R.bgp_rib[0].from_id
    /\ \E n \in bgp_peers(R) : IsSome(RibOut(R, 0, n))

---------------------------------------------------------------------------
(* test_pylon_gadget: get_route while the network converges, after the     *)
(* session r2 - e0 is removed (forwarding loop between r1 and r2) and      *)
(* after the session r1 - e1 is added                                      *)

PylonCalls ==
    << Advertise(9, << 1 >>, TRUE), Advertise(7, << 1 >>, TRUE),
       Advertise(8, << 1 >>, TRUE), RemoveSession(4, 5, TRUE),
       AddSession(3, 6, TRUE, TRUE) >>

InitPylon ==
    LET from(start) == InitScenario("Pylon", start, PylonCalls)
    IN  from(stop_after_queue(Pylon, Some(DEFAULT_STOP_AFTER)))

NextPylon ==
    \/ ScriptAdvertise
    \/ ScriptRemoveSession
    \/ ScriptAddSession
    \/ DoQueueStep

SpecPylon == InitPylon /\ [][NextPylon]_vars

(* the entry of router r's IGP table for the BGP next hop of its selected  *)
(* route for the prefix; r has a selected route                            *)
IgpEntry(t, r, prefix) ==
    t.routers[r].igp_forwarding_table[t.routers[r].bgp_rib[prefix].route.next_hop]

(* res is the result the walk from source is to give: along the path every *)
(* router but the last is internal, not met before, has a selected route   *)
(* and is followed by its IGP next hop towards that route's BGP next hop;  *)
(* the last is external (Ok), or an internal router met before             *)
(* (ForwardingLoop), or an internal router without a next hop              *)
(* (ForwardingBlackHole)                                                   *)
Describes(t, source, prefix, res) ==
    LET path == IF res.ok THEN res.val ELSE res.err[2]
        n == Len(path)
        last == path[n]
        before == { path[i] : i \in 1..(n - 1) }
    IN  /\ n >= 1 /\ path[1] = source
        /\ \A i \in 1..(n - 1) :
              /\ Has(t.routers, path[i])
              /\ Has(t.routers[path[i]].bgp_rib, prefix)
              /\ IsSome(IgpEntry(t, path[i], prefix))
              /\ path[i + 1] = IgpEntry(t, path[i], prefix)[1][1]
        /\ Cardinality(before) = n - 1
        /\ IF res.ok THEN Has(t.external_routers, last)
           ELSE IF res.err[1] = "ForwardingLoop"
           THEN Has(t.routers, last) /\ last \in before
           ELSE /\ res.err[1] = "ForwardingBlackHole"
                /\ Has(t.routers, last) /\ last \notin before
                /\ \/ ~ Has(t.routers[last].bgp_rib, prefix)
                   \/ IsNone(IgpEntry(t, last, prefix))

(* C15: get_route from an internal router returns the routers of the walk  *)
(* along the IGP next hops towards the BGP next hops of the selected       *)
(* routes: up to the first external router (Ok), up to the first internal  *)
(* router met a second time (ForwardingLoop), or up to the first router    *)
(* without a selected route (ForwardingBlackHole)                          *)
C15_GetRoute ==
    \A r \in DOMAIN routers : Describes(T, r, 0, get_route(T, r, 0))

(* the paths test_pylon_gadget asserts after the session r2 - e0 was       *)
(* removed: r1 and r2 forward to each other                                *)
C15_Witness ==
    /\ pc = "idle" /\ ResultIs(TRUE) /\ Len(script) = 1
    /\ get_route(T, 0, 0) = Ok(<< 0, 9 >>)
    /\ get_route(T, 1, 0) = Ok(<< 1, 5, 7 >>)
    /\ get_route(T, 2, 0) = Ok(<< 2, 6, 8 >>)
    /\ get_route(T, 3, 0) = Err("ForwardingLoop", << 3, 4, 3 >>)
    /\ get_route(T, 4, 0) = Err("ForwardingLoop", << 4, 3, 4 >>)

(* a router without a selected route while the others have one *)
C15_BlackHole ==
    /\ get_route(T, 0, 0) = Ok(<< 0, 9 >>)
    /\ get_route(T, 3, 0) = Err("ForwardingBlackHole", << 3 >>)

---------------------------------------------------------------------------
(* The IGP tables of small graphs: links are added one by one between      *)
(* IgpNodes routers, then write_igp_fw_tables writes every router's table; *)
(* a second network gets the same links in another order                   *)

IgpNodes == 4
MaxWeight == 2
MaxLinks == 3

IgpDevices == AddDevices(NetworkNew, [i \in 1..IgpNodes |-> "router"])

(* the add_edge calls that built the graph, in their order *)
Links(g) ==
    [i \in 1..(Len(g.edges) \div 2) |->
        << g.edges[2 * i - 1].source, g.edges[2 * i - 1].target,
           g.edges[2 * i - 1].weight >>]

Reordered(links, order) == [i \in 1..Len(links) |-> links[order[i]]]

InitIgp == InitOn(IgpDevices)

IgpAddEdge(a, b, weight) ==
    /\ IsNone(result)
    /\ Len(net.edges) < 2 * MaxLinks
    /\ \A i \in 1..Len(net.edges) :
          ~ (net.edges[i].source = a /\ net.edges[i].target = b)
    /\ SetNetwork(add_edge(T, a, b, weight, None).t)
    /\ UNCHANGED << pc, remaining_iter, result, dispatched, emitted, last_msg,
                    decided, quiet, ops, script, run, saved >>

(* update_edge_weight on a link the graph has *)
IgpUpdateEdge(a, b, weight) ==
    /\ IsNone(result)
    /\ \E i \in 1..Len(net.edges) :
          net.edges[i].source = a /\ net.edges[i].target = b
    /\ SetNetwork(update_edge_weight(T, a, b, weight, None).t)
    /\ UNCHANGED << pc, remaining_iter, result, dispatched, emitted, last_msg,
                    decided, quiet, ops, script, run, saved >>

(* write_igp_fw_tables(false) on a network: the outcomes over the orders   *)
(* in which routers.values_mut() yields the routers.  A write that         *)
(* succeeds in one order has written every router's table from the graph   *)
(* alone and gives the same network in every order; a write that panics    *)
(* leaves the routers before the failing one written and the ones after it *)
(* as they were.                                                           *)
IgpWritten(t) ==
    LET write(worder) == write_igp_fw_tables(t, FALSE, worder, worder, EmptyMap)
        ascending == write(SetToSeq(DOMAIN t.routers))
    IN  IF ascending.res.ok THEN { ascending }
        ELSE { write(worder) : worder \in Perms(DOMAIN t.routers) }

(* the network is written, then the second network; a panic of the first  *)
(* write ends the run before the second                                    *)
IgpWrite(order) ==
    /\ IsNone(result)
    /\ \E w \in IgpWritten(T) :
          /\ SetNetwork(w.t)
          /\ result' = Some(w.res)
          /\ IF w.res.ok
             THEN \E again \in IgpWritten(AddEdges(IgpDevices,
                                                 Reordered(Links(net), order))) :
                     saved' = [order |-> order, routers |-> again.t.routers,
                               res |-> again.res]
             ELSE saved' = saved
    /\ UNCHANGED << pc, remaining_iter, dispatched, emitted, last_msg,
                    decided, quiet, ops, script, run >>

NextIgp ==
    \/ \E a, b \in 0..(IgpNodes - 1), weight \in 0..MaxWeight :
          a < b /\ IgpAddEdge(a, b, weight)
    \/ \E a, b \in 0..(IgpNodes - 1), weight \in 0..MaxWeight :
          a < b /\ IgpUpdateEdge(a, b, weight)
    \/ \E order \in Perms(1..(Len(net.edges) \div 2)) : IgpWrite(order)

SpecIgp == InitIgp /\ [][NextIgp]_vars

(* the weight of the edge a -> b, infinite without one *)
Weight(g, a, b) ==
    LET ws == { g.edges[i].weight : i \in { j \in 1..Len(g.edges) :
                    g.edges[j].source = a /\ g.edges[j].target = b } }
    IN  IF ws = {} THEN Infinity ELSE CHOOSE w \in ws : \A v \in ws : w <= v

RECURSIVE ShortestVia(_, _, _, _)
(* the least weight of a path a -> b whose inner nodes are below k *)
ShortestVia(g, k, a, b) ==
    IF k = 0 THEN IF a = b THEN 0 ELSE Weight(g, a, b)
    ELSE LET direct == ShortestVia(g, k - 1, a, b)
             over == Plus(ShortestVia(g, k - 1, a, k - 1),
                          ShortestVia(g, k - 1, k - 1, b))
         IN  IF over < direct THEN over ELSE direct

Distance(g, a, b) == ShortestVia(g, g.n, a, b)

(* router r's table holds, for every node d, None when d is unreachable    *)
(* and otherwise the shortest distance with a next hop that is r itself    *)
(* for d = r and else a neighbour of r on a path of that weight to d       *)
TableCorrect(t, r) ==
    LET table == t.routers[r].igp_forwarding_table
    IN  \A d \in 0..(t.net.n - 1) :
           /\ Has(table, d)
           /\ IF Distance(t.net, r, d) = Infinity THEN IsNone(table[d])
              ELSE /\ IsSome(table[d])
                   /\ table[d][1][2] = Distance(t.net, r, d)
                   /\ IF d = r THEN table[d][1] = << r, 0 >>
                      ELSE /\ Weight(t.net, r, table[d][1][1]) # Infinity
                           /\ Plus(Weight(t.net, r, table[d][1][1]),
                                   Distance(t.net, table[d][1][1], d))
                                 = table[d][1][2]

(* C16: after the tables were written over a graph with non-negative      *)
(* weights, every router's entry for every destination is None exactly     *)
(* when the destination is unreachable and otherwise the shortest distance *)
(* with a neighbour as next hop that starts a path of that weight          *)
C16_TableCorrect ==
    IsSome(result) =>
        result[1].ok /\ \A r \in DOMAIN routers : TableCorrect(T, r)

(* the tables are as C16 describes them whenever the write returns, and it *)
(* returns whenever every weight is positive                               *)
C16_CorrectUnlessPanic ==
    IsSome(result) =>
        /\ result[1].ok => \A r \in DOMAIN routers : TableCorrect(T, r)
        /\ (\A i \in 1..Len(net.edges) : net.edges[i].weight > 0) => result[1].ok

(* the unwrap of the predecessor's entry fails: a link of weight 0 leads   *)
(* from node 2 to node 1, which the sort puts first                        *)
C16_Panic ==
    /\ Links(net) = << << 0, 2, 1 >>, << 1, 2, 0 >> >>
    /\ result = Some(Err("Panic", 1))

(* C17: two networks over the same routers that got the same weighted      *)
(* links in different orders have the same IGP tables after                *)
(* write_igp_fw_tables, also when shortest paths of equal cost exist       *)
C17_EdgeOrderIrrelevant ==
    IsSome(result) /\ result[1].ok =>
        /\ saved.res = result[1]
        /\ \A r \in DOMAIN routers :
              saved.routers[r].igp_forwarding_table
                 = routers[r].igp_forwarding_table

(* a triangle with two paths of weight 2 from node 0 to node 2, the links  *)
(* added in two different orders                                           *)
C17_Witness ==
    /\ Links(net) = << << 0, 1, 1 >>, << 1, 2, 1 >>, << 0, 2, 2 >> >>
    /\ result = Some(Ok(TRUE))
    /\ saved.order = << 3, 1, 2 >>
    /\ routers[0].igp_forwarding_table[2] = Some(<< 2, 2 >>)
    /\ saved.routers[0].igp_forwarding_table[2] = Some(<< 2, 2 >>)

---------------------------------------------------------------------------
(* test_simple: on S1, e0 and then e1 advertise the prefix with the        *)
(* AS path 1, 2, 3; the model also takes every other pair of AS paths of   *)
(* that length                                                             *)

SimplePaths == [1..3 -> 1..3]

SimpleCalls(first, second) ==
    << Advertise(0, first, TRUE), Advertise(5, second, TRUE) >>

InitSimple ==
    LET from(start) ==
            \E first, second \in SimplePaths :
               InitScenario("S1", start, SimpleCalls(first, second))
    IN  from(S1)

NextSimple ==
    \/ ScriptAdvertise
    \/ DoQueueStep

SpecSimple == InitSimple /\ [][NextSimple]_vars

(* C18: on S1 both advertisements return Ok(true), the queue drained, and  *)
(* after the second one b0 forwards to e0, r0 over b0 to e0, r1 over b1 to *)
(* e1 and b1 to e1                                                         *)
C18_TestSimple ==
    (pc = "idle" /\ IsSome(result)) =>
        /\ ResultIs(TRUE)
        /\ queue = << >>
        /\ script = << >> =>
              Routes(T) = (1 :> Ok(<< 1, 0 >>)) @@ (2 :> Ok(<< 2, 1, 0 >>))
                          @@ (3 :> Ok(<< 3, 4, 5 >>)) @@ (4 :> Ok(<< 4, 5 >>))

(* both advertisements have converged; r1 heard of the route of e0 from    *)
(* r0 and keeps its client's route                                         *)
C18_Witness ==
    /\ pc = "idle" /\ script = << >> /\ ResultIs(TRUE)
    /\ run.calls[1] = SimpleCalls(<< 1, 2, 3 >>, << 1, 2, 3 >>)
    /\ get_route(T, 3, 0) = Ok(<< 3, 4, 5 >>)
    /\ Has(routers[3].bgp_rib_in[0], 2)
    /\ routers[3].bgp_rib[0].from_id = 4

---------------------------------------------------------------------------
(* The order of the events between one emitter and one receiver            *)

Devices == DOMAIN routers \cup DOMAIN external_routers

(* the events of the queue q that from sent to to, in queue order *)
Pending(q, from, to) == SelectSeq(q, LAMBDA e : e.from = from /\ e.to = to)

IsPrefix(a, b) == Len(a) <= Len(b) /\ SubSeq(b, 1, Len(a)) = a

(* C19: between one emitter and one receiver the events leave the queue in *)
(* the order they entered it: an iteration of do_queue takes the oldest    *)
(* pending event of its pair, and whatever a step enqueues comes behind    *)
(* every pending event of the same pair; no other step removes an event    *)
C19_FifoPerPair ==
    [][\A from \in Devices, to \in Devices :
          IF pc = "queue" /\ queue # << >>
             /\ Head(queue).from = from /\ Head(queue).to = to
          THEN /\ Head(Pending(queue, from, to)) = Head(queue)
               /\ IsPrefix(Tail(Pending(queue, from, to)),
                           Pending(queue', from, to))
          ELSE IsPrefix(Pending(queue, from, to), Pending(queue', from, to))]_vars

(* b0 sent r0 an Update and then a Withdraw; r0 has handled the Update     *)
(* and the Withdraw is still pending                                       *)
C19_Witness ==
    /\ pc = "queue"
    /\ Has(routers[2].bgp_rib_in, 0) /\ Has(routers[2].bgp_rib_in[0], 1)
    /\ Len(Pending(queue, 1, 2)) = 1
    /\ Head(Pending(queue, 1, 2)).msg.type = "Withdraw"

---------------------------------------------------------------------------
(* What one iteration of do_queue leaves alone                             *)

(* the fields of a router a handler does not write *)
Configuration(r) ==
    [router_id |-> r.router_id,
     igp_forwarding_table |-> r.igp_forwarding_table,
     ibgp_peer_sessions |-> r.ibgp_peer_sessions,
     ibgp_client_sessions |-> r.ibgp_client_sessions,
     ebgp_sessions |-> r.ebgp_sessions,
     policy_bgp_local_pref |-> r.policy_bgp_local_pref,
     policy_bgp_route_no_export |-> r.policy_bgp_route_no_export]

(* C20: the iteration of do_queue that takes the event at the front of the *)
(* queue changes no router but the event's destination, and of that one    *)
(* only rib_in, rib, rib_out and the known prefixes; the graph, the        *)
(* external routers and the cap are unchanged; the events behind the front *)
(* stay in the queue in their order, and what follows them was sent by the *)
(* destination                                                             *)
C20_DispatchFrame ==
    [][(pc = "queue" /\ queue # << >>) =>
          /\ net' = net
          /\ external_routers' = external_routers
          /\ stop_after' = stop_after
          /\ DOMAIN routers' = DOMAIN routers
          /\ \A r \in DOMAIN routers :
                IF r = Head(queue).to
                THEN Configuration(routers'[r]) = Configuration(routers[r])
                ELSE routers'[r] = routers[r]
          /\ IsPrefix(Tail(queue), queue')
          /\ \A i \in Len(queue)..Len(queue') :
                queue'[i].from = Head(queue).to]_vars

(* r0 has handled b0's Update while another event was waiting: its RIBs    *)
(* hold the route, the event that waited is now at the front and r0's own  *)
(* Update to r1 behind it                                                  *)
C20_Witness ==
    /\ pc = "queue" /\ Len(queue) = 2
    /\ Has(routers[2].bgp_rib, 0) /\ routers[2].bgp_rib[0].from_id = 1
    /\ queue[1].from # 2
    /\ queue[2].from = 2 /\ queue[2].to = 3 /\ queue[2].msg.type = "Update"
    /\ << 2, 0, 3 >> \in DOMAIN last_msg
    /\ emitted = { queue[2] }

---------------------------------------------------------------------------
(* The known prefixes                                                      *)

(* every prefix that keys rib_in, rib or rib_out of r is known to r *)
KeysKnown(r) ==
    (DOMAIN r.bgp_rib_in \cup DOMAIN r.bgp_rib \cup DOMAIN r.bgp_rib_out)
       \subseteq r.bgp_known_prefixes

(* C21 as stated: the prefix of every event delivered to a router is known *)
(* to it afterwards, and the keys of rib_in, rib and rib_out are known     *)
(* prefixes                                                                *)
C21_DeliveredPrefixKnown ==
    /\ [](\A r \in DOMAIN routers : KeysKnown(routers[r]))
    /\ [][Executes =>
            Head(queue).msg.prefix
               \in routers'[Head(queue).to].bgp_known_prefixes]_vars

(* C21: the keys of rib_in, rib and rib_out are known prefixes; a prefix   *)
(* once known stays known; the prefix of a Withdraw, and of an Update from *)
(* a neighbour the router has a session with, is known after the event,    *)
(* whatever the handler returns; an Update from a neighbour without        *)
(* session leaves the router, its known prefixes included, as it was       *)
C21_AcceptedPrefixKnown ==
    /\ [](\A r \in DOMAIN routers : KeysKnown(routers[r]))
    /\ [][\A r \in DOMAIN routers :
             routers[r].bgp_known_prefixes
                \subseteq routers'[r].bgp_known_prefixes]_vars
    /\ [][Executes =>
            LET event == Head(queue)
            IN  IF \/ event.msg.type = "Withdraw"
                   \/ event.from \in bgp_peers(routers[event.to])
                THEN event.msg.prefix
                        \in routers'[event.to].bgp_known_prefixes
                ELSE routers' = routers]_vars

(* the queue has drained; a router learned the prefix from the Updates it  *)
(* accepted, and another was sent an Update over a session closed in       *)
(* flight, holds nothing from the sender, and knows the prefix from        *)
(* another neighbour                                                       *)
C21_Witness ==
    /\ Finished /\ ResultIs(TRUE)
    /\ \E r \in DOMAIN routers, n \in DOMAIN routers :
          /\ SkippedAt(r, n)
          /\ routers[r].bgp_known_prefixes = { 0 }
          /\ Has(routers[r].bgp_rib_in, 0)
          /\ DOMAIN routers[r].bgp_rib_in[0] # {}

(* a router was sent an Update over a session closed in flight and does    *)
(* not know the prefix                                                     *)
C21_Unknown ==
    \E r \in DOMAIN routers, n \in DOMAIN routers :
       SkippedAt(r, n) /\ routers[r].bgp_known_prefixes = {}

---------------------------------------------------------------------------
(* The senders of the received routes                                      *)

(* C22: every neighbour that keys an entry of rib_in[p] has a session with *)
(* the router; the entry names that neighbour and the type of its session  *)
C22_RibInFromSessions ==
    \A r \in DOMAIN routers : \A p \in DOMAIN routers[r].bgp_rib_in :
       \A n \in DOMAIN routers[r].bgp_rib_in[p] :
          /\ n \in bgp_peers(routers[r])
          /\ routers[r].bgp_rib_in[p][n].from_id = n
          /\ get_bgp_session_type(routers[r], n)
                = Ok(routers[r].bgp_rib_in[p][n].from_type)

(* the session with the neighbour of the selected route was closed; the    *)
(* routes received from the other neighbours are kept                      *)
C22_Witness ==
    /\ result = Some(Ok(<< >>))
    /\ Has(R.bgp_rib, 0) /\ R.bgp_rib[0].from_id \notin bgp_peers(R)
    /\ Has(R.bgp_rib_in, 0) /\ DOMAIN R.bgp_rib_in[0] # {}
    /\ DOMAIN R.bgp_rib_in[0] \subseteq bgp_peers(R)

---------------------------------------------------------------------------
(* The IGP cost of the selected route                                      *)

(* the cost the IGP forwarding table of r records for the target *)
TableCost(r, target) ==
    IF Has(r.igp_forwarding_table, target)
          /\ IsSome(r.igp_forwarding_table[target])
    THEN Some(r.igp_forwarding_table[target][1][2])
    ELSE None

(* C23: once the decision process has run for p on r after the last change *)
(* of r's IGP table, sessions and policies, a selected entry rib[p] that   *)
(* was learned over iBGP carries the IGP cost that the forwarding table of *)
(* r records for rib[p].next_hop                                           *)
C23_IgpCostCurrent ==
    \A r \in DOMAIN routers, p \in Prefixes :
       (/\ << r, p, "decision" >> \in decided
        /\ Has(routers[r].bgp_rib, p)
        /\ routers[r].bgp_rib[p].from_type # "EBgp")
          => /\ IsSome(routers[r].bgp_rib[p].igp_cost)
             /\ routers[r].bgp_rib[p].igp_cost
                   = TableCost(routers[r], routers[r].bgp_rib[p].route.next_hop)

(* the cost to the next hop of the selected route was changed in the table *)
(* and the decision process has run again: the entry keeps the old cost    *)
C23_Stale ==
    /\ ops = 2 /\ dispatched = 1 /\ result = Some(Ok(<< >>))
    /\ << TestId, 0, "decision" >> \in decided
    /\ Has(R.bgp_rib, 0) /\ R.bgp_rib[0].from_id = 1
    /\ R.bgp_rib[0].route.next_hop = 5
    /\ R.bgp_rib[0].igp_cost = Some(3)
    /\ TableCost(R, 5) = Some(0)

---------------------------------------------------------------------------
(* The next hop of the selected route                                      *)

(* C24: once the decision process has run for p on r, the IGP forwarding   *)
(* table of r has a reachable entry for the next hop of a selected route   *)
(* rib[p], or the next hop is r itself, and get_next_hop does not fail on  *)
(* a missing entry                                                         *)
C24_NextHopResolved ==
    \A r \in DOMAIN routers, p \in Prefixes :
       (<< r, p, "decision" >> \in decided /\ Has(routers[r].bgp_rib, p))
          => /\ \/ routers[r].bgp_rib[p].route.next_hop = r
                \/ IsSome(TableCost(routers[r],
                                    routers[r].bgp_rib[p].route.next_hop))
             /\ get_next_hop(routers[r], p).ok

(* a border router selected the route of its external neighbour, for whom *)
(* its IGP forwarding table has no entry: get_next_hop panics              *)
C24_Panic ==
    \E r \in DOMAIN routers :
       /\ << r, 0, "decision" >> \in decided
       /\ Has(routers[r].bgp_rib, 0)
       /\ routers[r].bgp_rib[0].from_type = "EBgp"
       /\ get_next_hop(routers[r], 0)
             = Err("Panic", routers[r].bgp_rib[0].from_id)

(* a router selected an iBGP-learned route whose next hop its IGP table    *)
(* records as unreachable                                                  *)
C24_Unreachable ==
    \E r \in DOMAIN routers :
       /\ << r, 0, "decision" >> \in decided
       /\ Has(routers[r].bgp_rib, 0)
       /\ Has(routers[r].igp_forwarding_table,
              routers[r].bgp_rib[0].route.next_hop)
       /\ get_next_hop(routers[r], 0) = Ok(None)

---------------------------------------------------------------------------
(* test_route_order1 and test_route_order2                                 *)

(* C25: in the network of test_route_order1/2 every advertisement returns  *)
(* Ok(true); after e0 and then e1 advertised the prefix the forwarding     *)
(* paths are b0 -> e0, r0 -> r1 -> b0 -> e0, r1 -> b0 -> e0, b1 -> e1, and *)
(* after e1 and then e0 they are b0 -> e0, r0 -> b1 -> e1,                 *)
(* r1 -> r0 -> b1 -> e1, b1 -> e1                                          *)
C25_RouteOrder ==
    /\ (pc = "idle" /\ IsSome(result)) => ResultIs(TRUE) /\ queue = << >>
    /\ (RunDone /\ FirstAdvertiser(run.number) = 0)
          => /\ get_route(T, 1, 0) = Ok(<< 1, 0 >>)
             /\ get_route(T, 2, 0) = Ok(<< 2, 3, 1, 0 >>)
             /\ get_route(T, 3, 0) = Ok(<< 3, 1, 0 >>)
             /\ get_route(T, 4, 0) = Ok(<< 4, 5 >>)
    /\ (RunDone /\ FirstAdvertiser(run.number) = 5)
          => /\ get_route(T, 1, 0) = Ok(<< 1, 0 >>)
             /\ get_route(T, 2, 0) = Ok(<< 2, 4, 5 >>)
             /\ get_route(T, 3, 0) = Ok(<< 3, 2, 4, 5 >>)
             /\ get_route(T, 4, 0) = Ok(<< 4, 5 >>)

(* both tests have run, test_route_order2 first: r1 forwarded over r0 to   *)
(* e1 and now forwards over b0 to e0                                       *)
C25_Witness ==
    /\ Finished /\ run.number = 2 /\ ResultIs(TRUE)
    /\ FirstAdvertiser(1) = 5 /\ FirstAdvertiser(2) = 0
    /\ saved[1].routes[3] = Ok(<< 3, 2, 4, 5 >>)
    /\ get_route(T, 3, 0) = Ok(<< 3, 1, 0 >>)
    /\ get_route(T, 2, 0) = Ok(<< 2, 3, 1, 0 >>)

---------------------------------------------------------------------------
(* The comparison of two entries.  The operands are entries with an IGP    *)
(* cost, as process_bgp_rib_in_route returns them; partial_cmp is called   *)
(* on the pair and then on the swapped pair.                               *)

(* the entries compared: the neighbour gives the session type it has on    *)
(* the test router                                                         *)
CompareEntries ==
    { RIBEntry(BgpRoute(0, x[1], x[2], x[3], x[4]),
               get_bgp_session_type(TestRouter, x[5]).val, x[5], Some(x[6])) :
         x \in AsPaths \X NextHops \X ({ None } \cup { Some(v) : v \in LocalPrefs })
                  \X { None, Some(1) } \X Neighbours \X IgpCosts }

(* self.partial_cmp(&other) *)
Cmp(self, other) == [op |-> "partial_cmp", self |-> self, other |-> other]

InitCompare ==
    \E a \in CompareEntries, b \in CompareEntries :
       InitScenario("", NetworkNew, << Cmp(a, b), Cmp(b, a) >>)

Compare ==
    /\ script # << >> /\ Head(script).op = "partial_cmp"
    /\ result' = Some(Ok(partial_cmp(Head(script).self, Head(script).other)))
    /\ saved' = Append(saved, partial_cmp(Head(script).self, Head(script).other))
    /\ script' = Tail(script)
    /\ ops' = ops + 1
    /\ UNCHANGED << net, routers, external_routers, queue, stop_after, pc,
                    remaining_iter, dispatched, emitted, last_msg, decided,
                    quiet, run >>

NextCompare == Compare

SpecCompare == InitCompare /\ [][NextCompare]_vars

(* the ordering of a against b under the specified decision order *)
Ranked(a, b) ==
    IF LexLess(Preference(a), Preference(b)) THEN "Greater"
    ELSE IF LexLess(Preference(b), Preference(a)) THEN "Less"
    ELSE "Equal"

(* Ordering::reverse *)
reverse(ordering) ==
    CASE ordering = "Greater" -> "Less"
      [] ordering = "Less" -> "Greater"
      [] OTHER -> "Equal"

(* C26: partial_cmp ranks two entries by the lexicographic order of higher *)
(* local_pref, shorter AS path, lower MED, eBGP before iBGP, lower IGP     *)
(* cost, lower next hop, lower neighbour id; an eBGP-learned entry is      *)
(* above an iBGP-learned one that ties on the first three, on whichever    *)
(* side it stands                                                          *)
C26_LexicographicOrder ==
    \A i \in 1..Len(saved) :
       saved[i] = Ranked(run.calls[1][i].self, run.calls[1][i].other)

(* an iBGP-learned entry compared with an eBGP-learned one that ties on    *)
(* local_pref, AS path length and MED came out Greater, and the swapped    *)
(* comparison came out Greater as well                                     *)
C26_IbgpAboveEbgp ==
    /\ Len(saved) = 2 /\ saved = << "Greater", "Greater" >>
    /\ run.calls[1][1].self.from_type = "IBgpPeer"
    /\ run.calls[1][1].other.from_type = "EBgp"
    /\ SubSeq(Preference(run.calls[1][1].self), 1, 3)
          = SubSeq(Preference(run.calls[1][1].other), 1, 3)

(* partial_cmp agrees with the specified order unless self was learned     *)
(* over iBGP and other over eBGP and they tie on the first three criteria  *)
C26_OrderUnlessIbgpLeft ==
    \A i \in 1..Len(saved) :
       LET self == run.calls[1][i].self
           other == run.calls[1][i].other
       IN  IF /\ is_ibgp(self.from_type) /\ is_ebgp(other.from_type)
              /\ SubSeq(Preference(self), 1, 3) = SubSeq(Preference(other), 1, 3)
           THEN saved[i] = Ranked([self EXCEPT !.from_type = "EBgp"], other)
           ELSE saved[i] = Ranked(self, other)

(* C27: partial_cmp is a total order on the entries: the comparison of b   *)
(* with a is the reverse of the comparison of a with b, and the result is  *)
(* Equal only when the entries tie on all seven criteria                   *)
C27_TotalOrder ==
    Len(saved) = 2
       => /\ saved[2] = reverse(saved[1])
          /\ saved[1] = "Equal"
                <=> Preference(run.calls[1][1].self)
                       = Preference(run.calls[1][1].other)

(* the eBGP-learned entry of neighbour 3 and an iBGP-learned entry with    *)
(* the same next hop at IGP cost 0: each is Greater than the other         *)
C27_BothGreater ==
    /\ Len(saved) = 2 /\ saved = << "Greater", "Greater" >>
    /\ run.calls[1][1].self.from_id = 3 /\ run.calls[1][1].other.from_id = 1
    /\ run.calls[1][1].self.route.next_hop = 3
    /\ run.calls[1][1].other.route.next_hop = 3
    /\ run.calls[1][1].self.igp_cost = Some(0)
    /\ run.calls[1][1].other.igp_cost = Some(0)

(* the router holds two routes in rib_in of which the decision process     *)
(* selects one or the other according to the order of the iteration        *)
C27_SelectionByIteration ==
    /\ Has(R.bgp_rib_in, 0)
    /\ \E o1 \in Perms(DOMAIN R.bgp_rib_in[0]) :
          \E o2 \in Perms(DOMAIN R.bgp_rib_in[0]) :
             LET d1 == run_bgp_decision_process_for_prefix(R, 0, o1)
                 d2 == run_bgp_decision_process_for_prefix(R, 0, o2)
             IN  /\ d1.res.ok /\ d2.res.ok
                 /\ Has(d1.router.bgp_rib, 0) /\ Has(d2.router.bgp_rib, 0)
                 /\ d1.router.bgp_rib[0].from_id # d2.router.bgp_rib[0].from_id

---------------------------------------------------------------------------
(* The cases of the dissemination                                          *)

(* the route router r has to send to its session peer n for prefix p: the  *)
(* selected entry, towards an eBGP peer with r as next hop and without     *)
(* local_pref                                                              *)
BestForPeer(r, p, n) ==
    IF ~ Has(r.bgp_rib, p) THEN None
    ELSE Some([route |->
                  IF n \in r.ebgp_sessions
                  THEN [r.bgp_rib[p].route EXCEPT !.next_hop = r.router_id,
                                                  !.local_pref = None]
                  ELSE r.bgp_rib[p].route,
               from_id |-> r.bgp_rib[p].from_id])

(* what the step did for prefix p, peer by peer; r0 is the router before   *)
(* and r1 after the step, sent the events the step pushed                  *)
CaseTable(r0, r1, sent, p) ==
    \A n \in Neighbours :
       LET old == RibOut(r0, p, n)
           now == RibOut(r1, p, n)
           new == BestForPeer(r1, p, n)
           to_n == { e.msg : e \in { x \in sent : x.to = n /\ x.msg.prefix = p } }
           nothing == now = old /\ to_n = {}
           removed == IsNone(now) /\ to_n = { Withdraw(p) }
           stored == /\ IsSome(now)
                     /\ now[1].route = new[1].route
                     /\ now[1].from_id = new[1].from_id
                     /\ to_n = { Update(new[1].route) }
       IN  IF n \notin bgp_peers(r1) THEN nothing
           ELSE IF IsNone(new) THEN (IF IsNone(old) THEN nothing ELSE removed)
           ELSE IF IsNone(old)
           THEN (IF ExportAllowed(r1, new[1].from_id, n) THEN stored ELSE nothing)
           ELSE IF RibEq(new[1], old[1]) THEN nothing
           ELSE IF ExportAllowed(r1, new[1].from_id, n) THEN stored
           ELSE removed

(* the step left rib_out[p] as it was and pushed no event for p *)
Untouched(r0, r1, sent, p) ==
    /\ \A n \in Neighbours : RibOut(r1, p, n) = RibOut(r0, p, n)
    /\ \A e \in sent : e.msg.prefix # p

(* C28: a dissemination that returns Ok has acted, for every known prefix  *)
(* and every session peer, by the case table on the route to send and      *)
(* rib_out[p][peer]: both absent, or both present and equal in route and   *)
(* from_id: no event, rib_out unchanged; new present, old absent: store    *)
(* and emit Update if the export is allowed, else nothing; both present    *)
(* and different: overwrite and emit Update if allowed, else remove and     *)
(* emit Withdraw; new absent, old present: remove and emit Withdraw.  A    *)
(* handle_event that returns Ok has done so for one prefix and has left    *)
(* the others alone                                                        *)
C28_DisseminationCases ==
    [][/\ (RDissemination /\ result'[1].ok)
             => \A p \in Prefixes :
                   IF p \in R.bgp_known_prefixes
                   THEN CaseTable(R, R', emitted', p)
                   ELSE Untouched(R, R', emitted', p)
       /\ (dispatched' = dispatched + 1 /\ result'[1].ok)
             => \E p \in R'.bgp_known_prefixes :
                   /\ CaseTable(R, R', emitted', p)
                   /\ \A q \in Prefixes \ { p } :
                         Untouched(R, R', emitted', q)]_vars

(* the router had sent the route of its client to the other neighbours;    *)
(* the better route of the iBGP peer was stored and sent to the client and *)
(* the eBGP neighbour, and withdrawn from the peer it came from            *)
C28_Witness ==
    /\ dispatched = 2 /\ result = Some(Ok(<< >>))
    /\ Has(R.bgp_rib, 0) /\ R.bgp_rib[0].from_id = 1
    /\ DOMAIN R.bgp_rib_in[0] = { 1, 2 }
    /\ IsNone(RibOut(R, 0, 1))
    /\ { << e.to, e.msg.type >> : e \in emitted }
          = { << 1, "Withdraw" >>, << 2, "Update" >>, << 3, "Update" >> }

---------------------------------------------------------------------------
(* The attributes of the routes sent and of the routes learned over eBGP   *)

(* C29: an Update a router sends to an eBGP peer carries the router itself *)
(* as next hop and no local_pref; an Update it sends to an iBGP peer or    *)
(* client carries the next hop and the local_pref of the selected entry;   *)
(* the other attributes are those of the selected entry in both cases      *)
C29_UpdateAttributes ==
    \A e \in emitted :
       (e.msg.type = "Update" /\ Has(routers, e.from))
          => LET r == routers[e.from]
                 sent == e.msg.route[1]
                 selected == r.bgp_rib[e.msg.prefix].route
             IN  /\ Has(r.bgp_rib, e.msg.prefix)
                 /\ e.to \in bgp_peers(r)
                 /\ IF e.to \in r.ebgp_sessions
                    THEN sent = [selected EXCEPT !.next_hop = e.from,
                                                 !.local_pref = None]
                    ELSE sent = selected

(* neighbour 1 has become an eBGP peer; the route selected from the eBGP   *)
(* neighbour 3, with local_pref 100, was sent to 1 with the router as next *)
(* hop and without local_pref, and to the client as it was selected        *)
C29_Witness ==
    /\ Has(R.bgp_rib, 0) /\ R.bgp_rib[0].from_id = 3
    /\ R.bgp_rib[0].route.next_hop = 3
    /\ R.bgp_rib[0].route.local_pref = Some(DefaultLocalPref)
    /\ \E e \in emitted :
          /\ e.to = 1 /\ e.to \in R.ebgp_sessions /\ e.msg.type = "Update"
          /\ e.msg.route[1].next_hop = TestId
          /\ e.msg.route[1].local_pref = None
    /\ \E e \in emitted :
          /\ e.to = 2 /\ e.to \in R.ibgp_client_sessions /\ e.msg.type = "Update"
          /\ e.msg.route[1].next_hop = 3
          /\ e.msg.route[1].local_pref = Some(DefaultLocalPref)

(* the local_pref an Update may carry *)
CarriedLocalPrefs == { None, Some(DefaultLocalPref + 50) }
                        \cup { Some(v) : v \in LocalPrefs }

(* the entry as the contract processes a route learned over eBGP from n *)
EbgpProcessed(r, entry) ==
    [route |-> [clone_default(entry.route) EXCEPT
                   !.local_pref =
                      IF Has(r.policy_bgp_local_pref, entry.from_id)
                      THEN Some(r.policy_bgp_local_pref[entry.from_id])
                      ELSE Some(DefaultLocalPref),
                   !.next_hop = entry.from_id],
     from_type |-> "EBgp", from_id |-> entry.from_id, igp_cost |-> Some(0)]

(* C30: a route learned over eBGP from neighbour n is processed with the   *)
(* local_pref of the policy for n, or 100 without one, whatever local_pref *)
(* the Update carried, with IGP cost 0 and with next hop n; and an entry   *)
(* selected by the latest decision run that was learned over eBGP has      *)
(* these attributes                                                        *)
C30_EbgpProcessing ==
    \A r \in DOMAIN routers : \A p \in DOMAIN routers[r].bgp_rib_in :
       /\ \A n \in DOMAIN routers[r].bgp_rib_in[p] :
             routers[r].bgp_rib_in[p][n].from_type = "EBgp"
                => \A lp \in CarriedLocalPrefs :
                      LET entry == [routers[r].bgp_rib_in[p][n]
                                       EXCEPT !.route.local_pref = lp]
                      IN  process_bgp_rib_in_route(routers[r], entry)
                             = Ok(EbgpProcessed(routers[r], entry))
       /\ (/\ << r, p, "decision" >> \in decided
           /\ Has(routers[r].bgp_rib, p)
           /\ routers[r].bgp_rib[p].from_type = "EBgp")
             => LET n == routers[r].bgp_rib[p].from_id
                IN  /\ Has(routers[r].bgp_rib_in[p], n)
                    /\ routers[r].bgp_rib[p]
                          = EbgpProcessed(routers[r], routers[r].bgp_rib_in[p][n])

(* the eBGP neighbour sent a route with next hop 5; the policy gives it    *)
(* local_pref 50 and the decision process has selected it again            *)
C30_Witness ==
    /\ << TestId, 0, "decision" >> \in decided
    /\ Has(R.bgp_rib, 0) /\ R.bgp_rib[0].from_id = 3
    /\ R.bgp_rib[0].from_type = "EBgp"
    /\ R.bgp_rib_in[0][3].route.next_hop = 5
    /\ R.bgp_rib[0].route.next_hop = 3
    /\ R.bgp_rib[0].route.local_pref = Some(50)
    /\ R.bgp_rib[0].igp_cost = Some(0)

---------------------------------------------------------------------------
(* Next hops the IGP table does not resolve                                *)

(* the errors the decision process of r can return for prefix p: one for   *)
(* every iBGP-learned entry of rib_in[p] whose next hop the IGP table does *)
(* not hold, or holds as unreachable                                       *)
Unresolved(r, p) ==
    IF ~ Has(r.bgp_rib_in, p) THEN {}
    ELSE { IF Has(r.igp_forwarding_table, e.route.next_hop)
           THEN Err("RouterNotReachable", e.route.next_hop)
           ELSE Err("RouterNotFound", e.route.next_hop) :
              e \in { r.bgp_rib_in[p][n] :
                         n \in { m \in DOMAIN r.bgp_rib_in[p] :
                                   /\ r.bgp_rib_in[p][m].from_type # "EBgp"
                                   /\ TableCost(r, r.bgp_rib_in[p][m].route.next_hop)
                                         = None } } }

(* C31: when an event is executed whose sender has a session or that is a  *)
(* Withdraw, and rib_in of its prefix then holds an iBGP-learned entry     *)
(* whose next hop is missing from the IGP table or unreachable in it,      *)
(* do_queue returns at once with RouterNotFound or RouterNotReachable for  *)
(* such a next hop, the events behind still queued; and do_queue returns   *)
(* these errors in no other case                                           *)
C31_UnresolvedNextHop ==
    [][Executes =>
         LET event == Head(queue)
             errors == Unresolved(routers'[event.to], event.msg.prefix)
         IN  /\ (/\ errors # {}
                 /\ \/ event.msg.type = "Withdraw"
                    \/ event.from \in bgp_peers(routers[event.to]))
                   => /\ pc' = "idle" /\ queue' = Tail(queue)
                      /\ result' \in { Some(e) : e \in errors }
             /\ (/\ ResultIsErr'
                 /\ result'[1].err[1] \in { "RouterNotFound",
                                            "RouterNotReachable" })
                   => result'[1] \in errors]_vars

(* do_queue has returned RouterNotReachable: the next hop of the route is  *)
(* in the table of the router and cannot be reached                        *)
C31_Witness ==
    /\ pc = "idle" /\ ResultIsErr
    /\ result[1].err[1] = "RouterNotReachable"
    /\ \E r \in DOMAIN routers :
          /\ Has(routers[r].igp_forwarding_table, result[1].err[2])
          /\ result[1] \in Unresolved(routers[r], 0)

(* do_queue has returned RouterNotFound: the tables were never written *)
C31_NotFound ==
    /\ pc = "idle" /\ ResultIsErr
    /\ result[1].err[1] = "RouterNotFound"
    /\ \E r \in DOMAIN routers :
          /\ routers[r].igp_forwarding_table = EmptyMap
          /\ result[1] \in Unresolved(routers[r], 0)

---------------------------------------------------------------------------
(* NoBgpSession from a handler                                             *)

(* C32: the handler of an executed event returns NoBgpSession exactly when *)
(* the event is an Update whose sender has no session with the router; the *)
(* error names the sender, and the routers and the queue behind the event  *)
(* are as before and nothing is pushed; the handler of a Withdraw, or of   *)
(* an Update from a session peer, returns NoBgpSession in no iteration     *)
(* order                                                                   *)
C32_NoBgpSession ==
    [][Executes =>
         LET event == Head(queue)
             stranger == /\ event.msg.type = "Update"
                         /\ event.from \notin bgp_peers(routers[event.to])
         IN  IF stranger
             THEN /\ HandlerResults = { Err("NoBgpSession", event.from) }
                  /\ routers' = routers
                  /\ queue' = Tail(queue)
                  /\ emitted' = {}
                  /\ result' = None /\ pc' = "queue"
             ELSE \A res \in HandlerResults :
                     res.ok \/ res.err[1] # "NoBgpSession"]_vars

(* an Update sent over a session that was closed in flight has just been   *)
(* executed and skipped; the receiver holds nothing from the sender and    *)
(* the queue goes on                                                       *)
C32_Witness ==
    /\ pc = "queue" /\ dispatched > 0 /\ emitted = {} /\ queue # << >>
    /\ IsNone(result)
    /\ \E r \in DOMAIN routers, n \in DOMAIN routers :
          /\ SkippedAt(r, n)
          /\ \A q \in 1..Len(queue) : ~ (queue[q].from = n /\ queue[q].to = r)

(* C32 on the router alone: a handle_event that returns NoBgpSession names *)
(* a neighbour without session and leaves the router as it was             *)
C32_RouterUntouched ==
    [][(dispatched' = dispatched + 1 /\ ResultIsErr'
          /\ result'[1].err[1] = "NoBgpSession")
         => /\ result'[1].err[2] \notin bgp_peers(R)
            /\ R' = R /\ emitted' = {} /\ queue' = queue]_vars

---------------------------------------------------------------------------
(* A Withdraw for a route the router does not hold                         *)

(* C33: a Withdraw(p) from a neighbour of whom rib_in[p] holds no entry is *)
(* handled without error: rib_in is unchanged, p is known afterwards, the  *)
(* decision process has run for p (rib[p] is present exactly when rib_in   *)
(* holds a route for p, and is then maximal among the processed entries)   *)
(* and the dissemination has run for p by its case table                   *)
C33_LostWithdraw ==
    \A from \in Neighbours, p \in Prefixes :
       ~ (Has(R.bgp_rib_in, p) /\ Has(R.bgp_rib_in[p], from)) =>
          LET outcome(h) == [res |-> h.res, router |-> h.router,
                             sent |-> Range(h.events)]
              outcomes ==
                 { outcome(handle_event(R, EventBgp(from, TestId, Withdraw(p)),
                                        dord, pord)) :
                      dord \in Perms((IF Has(R.bgp_rib_in, p)
                                      THEN DOMAIN R.bgp_rib_in[p] ELSE {})
                                     \cup { from }),
                      pord \in Perms(bgp_peers(R)) }
          IN  \A h \in outcomes :
                 /\ h.res = Ok(<< >>)
                 /\ h.router.bgp_rib_in = R.bgp_rib_in
                 /\ p \in h.router.bgp_known_prefixes
                 /\ Has(h.router.bgp_rib, p) <=> (Processed(h.router, p) # {})
                 /\ Has(h.router.bgp_rib, p)
                       => IsMaximumByRoute(h.router.bgp_rib[p],
                                           Processed(h.router, p))
                 /\ CaseTable(R, h.router, h.sent, p)

(* the first event the router handled was a Withdraw: the prefix is known, *)
(* rib_in holds nothing and nothing was sent                               *)
C33_Witness ==
    /\ dispatched = 1 /\ ops = 0 /\ result = Some(Ok(<< >>))
    /\ R = [TestRouter EXCEPT !.bgp_known_prefixes = { 0 },
                              !.bgp_rib_out = (0 :> EmptyMap)]
    /\ emitted = {}

---------------------------------------------------------------------------
(* The external router                                                     *)

(* the events evs are one event from e to each of its neighbours, each     *)
(* carrying msg                                                            *)
OnePerNeighbour(e, evs, msg) ==
    /\ Len(evs) = Cardinality(e.neighbors)
    /\ \A n \in e.neighbors :
          \E i \in 1..Len(evs) : evs[i] = EventBgp(e.router_id, n, msg)

(* the events a call appended to the queue *)
Pushed == SubSeq(queue', Len(queue) + 1, Len(queue'))

(* C34: advertise_prefix enqueues exactly one Update per neighbour, with   *)
(* the external router as next hop, no local_pref and the med it was       *)
(* given; widthdraw_prefix enqueues exactly one Withdraw per neighbour;    *)
(* an event delivered to an external router changes no router and no       *)
(* external router and enqueues nothing                                    *)
C34_ExternalRouter ==
    [][/\ \A x \in DOMAIN external_routers, p \in Prefixes, path \in AsPaths,
             med \in { None, Some(0), Some(7) } :
             \A ord \in Perms(external_routers[x].neighbors) :
                /\ OnePerNeighbour(external_routers[x],
                      advertise_prefix(external_routers[x], p, path, med, ord),
                      Update([prefix |-> p, as_path |-> path, next_hop |-> x,
                              local_pref |-> None, med |-> med]))
                /\ OnePerNeighbour(external_routers[x],
                      widthdraw_prefix(external_routers[x], p, ord),
                      Withdraw(p))
       /\ (Ready("advertise") /\ script' = Tail(script)) =>
             LET c == Head(script)
             IN  /\ SubSeq(queue', 1, Len(queue)) = queue
                 /\ OnePerNeighbour(external_routers[c.source], Pushed,
                       Update([prefix |-> c.prefix, as_path |-> c.as_path,
                               next_hop |-> c.source, local_pref |-> None,
                               med |-> None]))
       /\ (Ready("retract") /\ script' = Tail(script)) =>
             LET c == Head(script)
             IN  /\ SubSeq(queue', 1, Len(queue)) = queue
                 /\ OnePerNeighbour(external_routers[c.source], Pushed,
                                    Withdraw(c.prefix))
       /\ (/\ pc = "queue" /\ queue # << >> /\ ~ cap_reached(remaining_iter)
           /\ Has(external_routers, Head(queue).to)
           /\ print_event(T, Head(queue)).ok)
             => /\ routers' = routers /\ external_routers' = external_routers
                /\ net' = net
                /\ queue' = Tail(queue) /\ emitted' = {}
                /\ dispatched' = dispatched + 1
                /\ pc' = "queue" /\ result' = None]_vars

(* e0 of S4, which has two neighbours, has advertised and nothing has run: *)
(* the queue holds its two Updates                                         *)
C34_Witness ==
    /\ run.topology = "S4" /\ pc = "queue" /\ dispatched = 0
    /\ Len(queue) = 2
    /\ { queue[1].to, queue[2].to } = { 1, 4 }
    /\ \A i \in 1..2 :
          /\ queue[i].from = 0 /\ queue[i].msg.type = "Update"
          /\ queue[i].msg.route[1].next_hop = 0
          /\ IsNone(queue[i].msg.route[1].local_pref)

(* e0 of S4 has withdrawn: the queue holds its two Withdraws *)
C34_Withdrawn ==
    /\ run.topology = "S4" /\ pc = "queue" /\ dispatched = 0
    /\ Len(queue) = 2
    /\ { queue[1].to, queue[2].to } = { 1, 4 }
    /\ \A i \in 1..2 : queue[i] = EventBgp(0, queue[i].to, Withdraw(0))

(* an Update for an external router was executed and nothing became of it *)
C34_Delivered ==
    /\ pc = "queue" /\ dispatched > 0 /\ emitted = {}
    /\ \E x \in DOMAIN external_routers, k \in DOMAIN last_msg :
          /\ k[3] = x
          /\ last_msg[k].msg.type = "Update"
          /\ \A i \in 1..Len(queue) : queue[i].to # x

---------------------------------------------------------------------------
(* iBGP sessions: add_ibgp_session and remove_ibgp_session called with any *)
(* router ids on a network to which routers are still being added          *)

MaxRouters == 3

InitIbgp == InitOn(add_router(add_router(NetworkNew)))

IbgpOrders(id, new_peers, update) ==
    IF Has(routers, id) THEN SessionOrders(id, new_peers, update)
    ELSE { NoOrders }

IbgpAddRouter ==
    /\ pc = "idle" /\ net.n < MaxRouters
    /\ SetNetwork(add_router(T))
    /\ result' = None /\ emitted' = {}
    /\ UNCHANGED << pc, remaining_iter, dispatched, last_msg, decided, quiet,
                    ops, script, run, saved >>

IbgpAddSession(source, target, route_reflector, update) ==
    /\ pc = "idle" /\ ops < MaxOps
    /\ \E os \in IbgpOrders(source, { target }, update),
          ot \in IbgpOrders(target, { source }, update) :
          Called(add_ibgp_session(T, source, target, route_reflector, update,
                                  os, ot))
    /\ UNCHANGED << decided, quiet, script, run, saved >>

IbgpRemoveSession(source, target, update) ==
    /\ pc = "idle" /\ ops < MaxOps
    /\ \E os \in IbgpOrders(source, {}, update),
          ot \in IbgpOrders(target, {}, update) :
          Called(remove_ibgp_session(T, source, target, update, os, ot))
    /\ UNCHANGED << decided, quiet, script, run, saved >>

NextIbgp ==
    \/ IbgpAddRouter
    \/ \E source, target \in 0..(MaxRouters - 1),
          route_reflector \in BOOLEAN, update \in BOOLEAN :
          IbgpAddSession(source, target, route_reflector, update)
    \/ \E source, target \in 0..(MaxRouters - 1), update \in BOOLEAN :
          IbgpRemoveSession(source, target, update)
    \/ DoQueueStep

SpecIbgp == InitIbgp /\ [][NextIbgp]_vars

(* C35: a session between two internal routers exists on both sides or on  *)
(* neither                                                                 *)
C35_SessionsOnBothSides ==
    \A a \in DOMAIN routers, b \in DOMAIN routers :
       b \in bgp_peers(routers[a]) <=> a \in bgp_peers(routers[b])

(* add_ibgp_session(0, 2, ..) failed with DeviceNotFound before router 2   *)
(* was added: router 0 has the session, router 2 has none                  *)
C35_OneSided ==
    /\ Has(routers, 2)
    /\ 2 \in bgp_peers(routers[0])
    /\ 0 \notin bgp_peers(routers[2])

(* the call the step makes returns Ok *)
Succeeds == pc' = "queue" \/ (pc' = "idle" /\ ResultIs(TRUE)')

(* C35, the calls that succeed: after add_ibgp_session(source, target,     *)
(* route_reflector, _) the source has the target as client if              *)
(* route_reflector and as peer if not, and the target has the source as    *)
(* peer; after remove_ibgp_session neither has a session with the other    *)
C35_SuccessfulCalls ==
    [][\A source, target \in 0..(MaxRouters - 1), update \in BOOLEAN :
          /\ \A route_reflector \in BOOLEAN :
                (IbgpAddSession(source, target, route_reflector, update)
                 /\ Succeeds)
                   => /\ get_bgp_session_type(routers'[source], target)
                           = Ok(IF route_reflector THEN "IBgpClient"
                                  ELSE "IBgpPeer")
                      /\ get_bgp_session_type(routers'[target], source)
                           = Ok("IBgpPeer")
          /\ (IbgpRemoveSession(source, target, update) /\ Succeeds)
                => /\ target \notin bgp_peers(routers'[source])
                   /\ source \notin bgp_peers(routers'[target])]_vars

(* a reflector session was added and removed again *)
C35_AddedAndRemoved ==
    /\ ops = 2 /\ pc = "idle" /\ ResultIs(TRUE)
    /\ \A r \in DOMAIN routers : bgp_peers(routers[r]) = {}

(* router 0 is the reflector of router 1 *)
C35_Reflector ==
    /\ get_bgp_session_type(routers[0], 1) = Ok("IBgpClient")
    /\ get_bgp_session_type(routers[1], 0) = Ok("IBgpPeer")

---------------------------------------------------------------------------
(* The order in which write_igp_forwarding_table fills the table           *)

(* in the sorted list router r walks over graph g, every reachable         *)
(* destination whose predecessor is not r comes after its predecessor,     *)
(* which is reachable as well                                              *)
PredecessorFirst(g, r) ==
    LET before(sp, paths) ==
            \A i \in 1..Len(paths) :
               (/\ sp.distance[paths[i]] # Infinity
                /\ IsSome(sp.predecessor[paths[i]])
                /\ sp.predecessor[paths[i]][1] # r)
                  => \E j \in 1..(i - 1) :
                        /\ paths[j] = sp.predecessor[paths[i]][1]
                        /\ sp.distance[paths[j]] # Infinity
        sorted(sp) == before(sp, StableSortByCost(0..(g.n - 1), sp.distance))
    IN  sorted(bellman_ford(g, r))

(* C36: over every graph with non-negative weights, links of weight zero   *)
(* and destinations of equal cost included, each destination is processed  *)
(* after its predecessor, so that the lookup of the predecessor's entry    *)
(* never fails                                                             *)
C36_PredecessorInserted ==
    /\ \A r \in DOMAIN routers : PredecessorFirst(net, r)
    /\ IsSome(result) => result[1].ok

(* the order holds and the lookup succeeds wherever every link has a       *)
(* positive weight, destinations of equal cost included                    *)
C36_PositiveWeights ==
    (\A i \in 1..Len(net.edges) : net.edges[i].weight > 0)
       => /\ \A r \in DOMAIN routers : PredecessorFirst(net, r)
          /\ IsSome(result) => result[1].ok

(* node 1 is reached from router 0 over node 2 and a link of weight zero:  *)
(* both cost 1, the sort leaves node 1 first and the write fails on it     *)
C36_ZeroWeight ==
    /\ Links(net) = << << 0, 2, 1 >>, << 1, 2, 0 >> >>
    /\ ~ PredecessorFirst(net, 0)
    /\ IsSome(result) /\ ~ result[1].ok

(* two destinations of equal cost behind positive links, written *)
C36_EqualCost ==
    /\ Links(net) = << << 0, 1, 1 >>, << 0, 2, 1 >>, << 1, 3, 1 >> >>
    /\ ResultIs(TRUE)

---------------------------------------------------------------------------
(* An event that leaves the selection alone                                *)

(* the routers handle_event can leave when r handles an Update of route    *)
(* from the neighbour from                                                 *)
AfterUpdate(r, from, route) ==
    { h.router :
        h \in { x \in { handle_event(r, EventBgp(from, r.router_id, Update(route)),
                                     dord, pord) :
                           dord \in Perms((IF Has(r.bgp_rib_in, route.prefix)
                                           THEN DOMAIN r.bgp_rib_in[route.prefix]
                                           ELSE {}) \cup { from }),
                           pord \in Perms(bgp_peers(r)) } : x.res.ok } }

(* the router of test_bgp_single after the Updates of its eBGP neighbour   *)
(* and of its iBGP peer were handled; from here on no session and no       *)
(* export policy changes                                                   *)
InitSettled ==
    \E first \in { x \in ReceivedRoutes : x.next_hop = 3 },
       second \in ReceivedRoutes :
       \E a \in AfterUpdate(TestRouter, 3, first) :
          \E b \in AfterUpdate(a, 1, second) :
             InitOn([net |-> NewGraph, routers |-> (TestId :> b),
                     external_routers |-> EmptyMap, queue |-> << >>,
                     stop_after |-> Some(DEFAULT_STOP_AFTER)])

NextSettled ==
    \/ \E neighbour \in Neighbours, value \in { None } \cup
                                    { Some(v) : v \in LocalPrefs } :
          RSetLocalPref(neighbour, value)
    \/ \E target \in NextHops, cost \in IgpCosts : RSetIgp(target, cost)
    \/ \E from \in Neighbours, route \in ReceivedRoutes :
          RHandleEvent(from, Update(route))
    \/ \E from \in Neighbours, prefix \in Prefixes :
          RHandleEvent(from, Withdraw(prefix))
    \/ RDecision
    \/ RDissemination

SpecSettled == InitSettled /\ [][NextSettled]_vars

(* rib_out[p] is what a dissemination for p leaves: run again on r, it     *)
(* would push no event and change nothing                                  *)
UpToDate(r, p) == Has(r.bgp_rib_out, p) /\ CaseTable(r, r, {}, p)

(* the step is a handle_event that left the entry selected for p as it was *)
KeepsSelection(p) ==
    /\ dispatched' = dispatched + 1
    /\ Get(R'.bgp_rib, p) = Get(R.bgp_rib, p)

(* the step pushed no event for p and left rib_out[p] as it was *)
Silent(p) ==
    /\ \A e \in emitted' : e.msg.prefix # p
    /\ Get(R'.bgp_rib_out, p) = Get(R.bgp_rib_out, p)

(* C37 as stated: the router was set up by two Updates, each handled with  *)
(* its dissemination, and no session and no export policy has changed      *)
(* since; an event that leaves the selected route alone pushes no event    *)
(* and leaves rib_out alone                                                *)
C37_SilentWithoutChange ==
    [][\A p \in Prefixes : KeepsSelection(p) => Silent(p)]_vars

(* C37: an event that leaves the selected route for its prefix alone,      *)
(* handled while rib_out for that prefix is up to date with the selected   *)
(* route under the sessions and the export policy of the router, pushes    *)
(* no event and leaves rib and rib_out alone                               *)
C37_SilentWhenUpToDate ==
    [][\A p \in Prefixes :
          (KeepsSelection(p) /\ UpToDate(R, p)) => Silent(p)]_vars

(* a third Update, of the client, was handled as the first event: the      *)
(* selection stayed and nothing was pushed                                 *)
C37_Witness ==
    /\ dispatched = 1 /\ ops = 0 /\ result = Some(Ok(<< >>))
    /\ emitted = {}
    /\ DOMAIN R.bgp_rib_in[0] = { 1, 2, 3 }
    /\ R.bgp_rib[0].from_id # 2
    /\ UpToDate(R, 0)

(* the local_pref policy was changed and the decision process run alone:   *)
(* another route is selected, and rib_out still holds the one sent before  *)
C37_Pending ==
    /\ dispatched = 0 /\ ops = 2 /\ result = Some(Ok(<< >>))
    /\ R.policy_bgp_local_pref # EmptyMap
    /\ ~ UpToDate(R, 0)

---------------------------------------------------------------------------
(* A local_pref policy changed on a converged network                      *)

PolicyValues == { 50, 200 }

SetLocalPref(router, neighbour, value) ==
    Call("local_pref", router, neighbour, << >>, FALSE, FALSE)
       @@ [value |-> value]

(* both external routers advertise, then the policy of one router for one  *)
(* of its neighbours is set, the router is updated and the queue run       *)
PolicyScripts(t) ==
    { << Advertise(x[1], x[3], TRUE), Advertise(x[2], x[4], TRUE),
         SetLocalPref(s[1], s[2], s[3]), Schedule(s[1]), Queue >> :
         x \in { y \in Externals(t) \X Externals(t) \X AsPaths \X AsPaths :
                   y[1] # y[2] },
         s \in { z \in (DOMAIN t.routers) \X (0..(t.net.n - 1)) \X PolicyValues :
                   z[2] \in bgp_peers(t.routers[z[1]]) } }

InitPolicy ==
    \E name \in { "S1", "S2" } :
       LET from(start) ==
               \E calls \in PolicyScripts(start) : InitScenario(name, start, calls)
       IN  from(Start(name))

(* n.get_router_mut(router).policy_bgp_local_pref.insert(neighbour, value) *)
ScriptSetLocalPref ==
    /\ Ready("local_pref")
    /\ LET c == Head(script)
       IN  /\ routers' = [routers EXCEPT ![c.source].policy_bgp_local_pref =
                             Put(@, c.target, c.value)]
           /\ decided' = Touched(decided, c.source)
    /\ result' = None /\ emitted' = {} /\ ops' = ops + 1
    /\ script' = Tail(script)
    /\ UNCHANGED << net, external_routers, queue, stop_after, pc,
                    remaining_iter, dispatched, last_msg, quiet, run, saved >>

NextPolicy ==
    \/ ScriptAdvertise
    \/ ScriptSetLocalPref
    \/ ScriptSchedule
    \/ ScriptDoQueue
    \/ DoQueueStep

SpecPolicy == InitPolicy /\ [][NextPolicy]_vars

(* the call that set the policy in the run under way *)
PolicyCall == run.calls[1][3]

(* C38: after the local_pref policy of a router was changed, the router    *)
(* updated and the queue run, the route the router selects for every       *)
(* known prefix is the maximum of its rib_in entries as they are           *)
(* processed under the new policy: a selected route of the neighbour the   *)
(* policy names carries the new local_pref; no external router advertised  *)
(* again, and rib_in holds their routes as they sent them                  *)
C38_PolicyTakesEffect ==
    Finished =>
       LET c == PolicyCall
           r == routers[c.source]
       IN  /\ r.policy_bgp_local_pref = (c.target :> c.value)
           /\ \A p \in r.bgp_known_prefixes :
                 /\ Has(r.bgp_rib, p) <=> (Candidates(r, p) # {})
                 /\ Candidates(r, p) = { Ok(e) : e \in Processed(r, p) }
                 /\ Has(r.bgp_rib, p) =>
                       /\ r.bgp_rib[p] \in Processed(r, p)
                       /\ IsMaximum(r.bgp_rib[p], Processed(r, p))
                       /\ (/\ r.bgp_rib[p].from_id = c.target
                           /\ c.target \in r.ebgp_sessions)
                             => r.bgp_rib[p].route.local_pref = Some(c.value)
                 /\ \A x \in DOMAIN external_routers :
                       (Has(r.bgp_rib_in, p) /\ Has(r.bgp_rib_in[p], x)) =>
                          \E path \in AsPaths :
                             r.bgp_rib_in[p][x].route
                                = BgpRoute(p, path, x, None, None)

(* b0 of S1 prefers its external neighbour less than before and now        *)
(* selects the route its reflector sent; rib_in still holds e0's route     *)
C38_Witness ==
    /\ Finished /\ run.topology = "S1"
    /\ PolicyCall.source = 1 /\ PolicyCall.target = 0 /\ PolicyCall.value = 50
    /\ Has(routers[1].bgp_rib_in[0], 0)
    /\ routers[1].bgp_rib[0].from_id = 2

(* b0 of S1 prefers its external neighbour more than before: the selected  *)
(* route is the one of e0 with the new local_pref                          *)
C38_Raised ==
    /\ Finished /\ run.topology = "S1"
    /\ PolicyCall.source = 1 /\ PolicyCall.target = 0 /\ PolicyCall.value = 200
    /\ routers[1].bgp_rib[0].from_id = 0
    /\ routers[1].bgp_rib[0].route.local_pref = Some(200)
    /\ \A r \in DOMAIN routers : routers[r].bgp_rib[0].route.local_pref = Some(200)

---------------------------------------------------------------------------
(* rib_out of the sender and rib_in of the receiver, every call made with  *)
(* update = true                                                           *)

(* both external routers advertise, an iBGP session is removed and added   *)
(* again, and the first advertiser withdraws                               *)
UpdatedScripts(t) ==
    { << Advertise(x[1], x[3], TRUE), Advertise(x[2], x[4], TRUE),
         RemoveSession(s[1], s[2], TRUE), AddSession(s[1], s[2], s[3], TRUE),
         Retract(x[1], TRUE) >> :
         x \in { y \in Externals(t) \X Externals(t) \X AsPaths \X AsPaths :
                   y[1] # y[2] },
         s \in IbgpSessions(t) }

InitUpdated ==
    \E name \in Topologies :
       LET from(start) ==
               \E calls \in UpdatedScripts(start) : InitScenario(name, start, calls)
       IN  from(Start(name))

NextUpdated ==
    \/ ScriptAdvertise
    \/ ScriptRemoveSession
    \/ ScriptAddSession
    \/ ScriptRetract
    \/ DoQueueStep

SpecUpdated == InitUpdated /\ [][NextUpdated]_vars

(* rib_out[p][n] of router r, and rib_in[p][r] of router n, as options *)
SentTo(r, p, n) ==
    IF Has(routers[r].bgp_rib_out, p) /\ Has(routers[r].bgp_rib_out[p], n)
    THEN Some(routers[r].bgp_rib_out[p][n].route) ELSE None

HeldFrom(n, p, r) ==
    IF Has(routers[n].bgp_rib_in, p) /\ Has(routers[n].bgp_rib_in[p], r)
    THEN Some(routers[n].bgp_rib_in[p][r].route) ELSE None

(* every call so far returned Ok(true) and the queue is empty *)
Drained ==
    /\ pc = "idle" /\ queue = << >>
    /\ IsNone(result) \/ ResultIs(TRUE)

(* C39: when the queue is empty after calls that each ran with             *)
(* update = true and returned Ok(true), then for all internal routers r    *)
(* and n with a session and every prefix p, n holds rib_in[p][r] exactly   *)
(* when r holds rib_out[p][n], and the two hold the same route             *)
C39_RibOutMatchesRibIn ==
    Drained =>
       \A r \in DOMAIN routers, n \in DOMAIN routers, p \in Prefixes :
          n \in bgp_peers(routers[r]) => SentTo(r, p, n) = HeldFrom(n, p, r)

(* the reflector session of S1 between r0 and b0 was removed and added     *)
(* again: b0 holds the route of e1 from r0 again, as r0's rib_out says     *)
C39_Witness ==
    /\ Drained /\ run.topology = "S1" /\ Len(script) = 1
    /\ run.calls[1][3].source = 2 /\ run.calls[1][3].target = 1
    /\ IsSome(SentTo(2, 0, 1))
    /\ SentTo(2, 0, 1) = HeldFrom(1, 0, 2)
    /\ SentTo(2, 0, 1)[1].next_hop = 5

(* the session is removed: neither side holds anything of the other *)
C39_Removed ==
    /\ Drained /\ Len(script) = 2
    /\ \E r \in DOMAIN routers, n \in DOMAIN routers :
          /\ run.calls[1][3].source = r /\ run.calls[1][3].target = n
          /\ n \notin bgp_peers(routers[r])
          /\ IsNone(SentTo(r, 0, n)) /\ IsNone(HeldFrom(n, 0, r))
          /\ \E m \in bgp_peers(routers[r]) : IsSome(SentTo(r, 0, m))

---------------------------------------------------------------------------
(* The length of the walk of get_route                                     *)

(* the routers get_route pushed to its result, for the three outcomes that *)
(* carry them                                                              *)
Walked(res) == IF res.ok THEN res.val ELSE res.err[2]

ReturnsWalk(res) ==
    res.ok \/ res.err[1] \in { "ForwardingLoop", "ForwardingBlackHole" }

(* C40: get_route from an internal router returns a path, ForwardingLoop   *)
(* or ForwardingBlackHole, whatever the RIBs and the IGP tables hold, and  *)
(* has then visited at most (number of internal routers + 1) routers       *)
C40_ReturnsWithinBound ==
    \A source \in DOMAIN routers, p \in Prefixes :
       LET within(res) ==
               /\ ReturnsWalk(res)
               /\ Len(Walked(res)) <= Cardinality(DOMAIN routers) + 1
       IN  within(get_route(T, source, p))

(* whenever get_route returns one of the three outcomes the walk has at    *)
(* most (number of internal routers + 1) routers, and the only other       *)
(* outcome is the failed unwrap of get_next_hop                            *)
C40_BoundedWhenReturned ==
    \A source \in DOMAIN routers, p \in Prefixes :
       LET within(res) ==
               IF ReturnsWalk(res)
               THEN Len(Walked(res)) <= Cardinality(DOMAIN routers) + 1
               ELSE res.err[1] = "Panic"
       IN  within(get_route(T, source, p))

(* the IGP tables were never written and b0 selected the route of e0:      *)
(* get_route from b0 ends in the failed unwrap, on the first router        *)
C40_Panic ==
    /\ Has(routers, 1) /\ Has(routers[1].bgp_rib, 0)
    /\ routers[1].igp_forwarding_table = EmptyMap
    /\ routers[1].bgp_rib[0].route.next_hop = 0
    /\ get_route(T, 1, 0) = Err("Panic", 0)

(* a walk through every internal router that ends at an external one *)
C40_Longest ==
    \E source \in DOMAIN routers :
       LET longest(res) ==
               res.ok /\ Len(res.val) = Cardinality(DOMAIN routers) + 1
       IN  longest(get_route(T, source, 0))

=============================================================================
